---- MODULE Spec2Model ----
(***************************************************************************)
(* Minichess (src/MinichessEngine.py): the MinichessBoard position model,  *)
(* the move generator, the check / legality filter, the termination        *)
(* detector and the three engines, as a state machine over a small heap of *)
(* board objects.                                                          *)
(*                                                                         *)
(* Python floats are kept as fixed-point integers, 1.0 is 1000, so that    *)
(* 0.05 (mobility) and 3.1 (bishop) are exact.                             *)
(***************************************************************************)
EXTENDS Integers, Sequences, FiniteSets, TLC

VARIABLES objs, grids, lists, last, engine, left, app

vars == <<objs, grids, lists, last, engine, left, app>>

(***************************************************************************)
(* Generic helpers                                                         *)
(***************************************************************************)
Range(s) == {s[i] : i \in DOMAIN s}

Max2(a, b) == IF a >= b THEN a ELSE b

Min2(a, b) == IF a <= b THEN a ELSE b

RECURSIVE Flatten(_)
Flatten(ss) == IF ss = <<>> THEN <<>> ELSE Head(ss) \o Flatten(Tail(ss))

(***************************************************************************)
(* PieceType, Color, Piece, Move                                           *)
(***************************************************************************)
PAWN == "P"
ROOK == "R"
BISHOP == "B"
KNIGHT == "N"
QUEEN == "Q"
KING == "K"

WHITE == "white"
BLACK == "black"

Piece(type, color) == [type |-> type, color |-> color]

\* Python's None in a board cell or in Move.captured
None == [type |-> "-", color |-> "-"]

Move(from_pos, to_pos, piece, captured) ==
    [from_pos |-> from_pos, to_pos |-> to_pos, piece |-> piece, captured |-> captured]

\* Python's None as the result of get_move
NoMove == Move(<<-1, -1>>, <<-1, -1>>, None, None)

(***************************************************************************)
(* MinichessBoard.__init__ and _setup_board                                *)
(***************************************************************************)
Rows(variant) ==
    CASE variant = "4x4" -> 4
      [] variant = "4x5" -> 5
      [] variant = "4x8" -> 8
      [] variant = "5x5" -> 5
      [] variant = "5x6" -> 6
      [] variant = "6x6" -> 6

Cols(variant) ==
    CASE variant = "4x4" -> 4
      [] variant = "4x5" -> 4
      [] variant = "4x8" -> 4
      [] variant = "5x5" -> 5
      [] variant = "5x6" -> 5
      [] variant = "6x6" -> 6

\* white_pieces / black_pieces of the variant (the two lists are equal in every variant)
BackRank(variant) ==
    CASE variant \in {"4x4", "4x5"} -> <<ROOK, QUEEN, KING, ROOK>>
      [] variant = "4x8" -> <<KING, BISHOP, KNIGHT, ROOK>>
      [] variant \in {"5x5", "5x6"} -> <<KING, QUEEN, BISHOP, KNIGHT, ROOK>>
      [] variant = "6x6" -> <<ROOK, KNIGHT, QUEEN, KING, KNIGHT, ROOK>>

\* the row the black pawns are put on
BlackPawnRow(variant) ==
    CASE variant = "4x4" -> 2
      [] variant = "4x5" -> 3
      [] variant = "4x8" -> 6
      [] variant = "5x5" -> 3
      [] variant = "5x6" -> 4
      [] variant = "6x6" -> 4

PawnDoubleMove(variant) == variant \in {"4x5", "5x5", "5x6"}

_setup_board(variant) ==
    [row \in 0..(Rows(variant) - 1) |->
        [col \in 0..(Cols(variant) - 1) |->
            IF row = 0 THEN Piece(BackRank(variant)[col + 1], WHITE)
            ELSE IF row = 1 THEN Piece(PAWN, WHITE)
            ELSE IF row = BlackPawnRow(variant) THEN Piece(PAWN, BLACK)
            ELSE IF row = Rows(variant) - 1 THEN Piece(BackRank(variant)[col + 1], BLACK)
            ELSE None]]

\* The value of a freshly constructed MinichessBoard(variant)
MinichessBoard(variant) ==
    [variant |-> variant,
     pawn_double_move |-> PawnDoubleMove(variant),
     rows |-> Rows(variant),
     cols |-> Cols(variant),
     board |-> _setup_board(variant),
     turn |-> WHITE,
     move_history |-> <<>>,
     fullmove_number |-> 1,
     halfmove_clock |-> 0]

is_valid_pos(b, row, col) == 0 <= row /\ row < b.rows /\ 0 <= col /\ col < b.cols

(***************************************************************************)
(* Move generator (pseudo-legal moves, in the order the code appends them) *)
(***************************************************************************)
\* Mutant of _generate_pawn_moves: the capture loop is left out
_generate_pawn_moves_forward_only(b, row, col, piece) ==
    LET direction == IF piece.color = WHITE THEN 1 ELSE -1
        new_row == row + direction
    IN IF is_valid_pos(b, new_row, col) /\ b.board[new_row][col] = None
       THEN <<Move(<<row, col>>, <<new_row, col>>, piece, None)>>
       ELSE <<>>

\* Mutant of _generate_pawn_moves: the double move is tried from every row
_generate_pawn_moves_double_anywhere(b, row, col, piece) ==
    LET direction == IF piece.color = WHITE THEN 1 ELSE -1
        new_row == row + direction
        new_row2 == row + 2 * direction
        forward ==
            IF is_valid_pos(b, new_row, col) /\ b.board[new_row][col] = None
            THEN <<Move(<<row, col>>, <<new_row, col>>, piece, None)>>
                 \o (IF b.pawn_double_move
                        /\ is_valid_pos(b, new_row2, col)
                        /\ b.board[new_row2][col] = None
                     THEN <<Move(<<row, col>>, <<new_row2, col>>, piece, None)>>
                     ELSE <<>>)
            ELSE <<>>
        capture(dc) ==
            LET new_col == col + dc IN
            IF is_valid_pos(b, new_row, new_col)
               /\ b.board[new_row][new_col] # None
               /\ b.board[new_row][new_col].color # piece.color
            THEN <<Move(<<row, col>>, <<new_row, new_col>>, piece, b.board[new_row][new_col])>>
            ELSE <<>>
    IN forward \o capture(-1) \o capture(1)

_generate_pawn_moves(b, row, col, piece) ==
    LET direction == IF piece.color = WHITE THEN 1 ELSE -1
        new_row == row + direction
        start_row ==
            IF b.variant \in {"4x5", "5x6"}
            THEN (IF piece.color = WHITE THEN 1 ELSE b.rows - 2)
            ELSE IF b.variant = "5x5"
            THEN (IF piece.color = WHITE THEN 1 ELSE 3)
            ELSE -1
        new_row2 == row + 2 * direction
        forward ==
            IF is_valid_pos(b, new_row, col) /\ b.board[new_row][col] = None
            THEN <<Move(<<row, col>>, <<new_row, col>>, piece, None)>>
                 \o (IF b.pawn_double_move /\ row = start_row
                        /\ is_valid_pos(b, new_row2, col)
                        /\ b.board[new_row2][col] = None
                     THEN <<Move(<<row, col>>, <<new_row2, col>>, piece, None)>>
                     ELSE <<>>)
            ELSE <<>>
        capture(dc) ==
            LET new_col == col + dc IN
            IF is_valid_pos(b, new_row, new_col)
               /\ b.board[new_row][new_col] # None
               /\ b.board[new_row][new_col].color # piece.color
            THEN <<Move(<<row, col>>, <<new_row, new_col>>, piece, b.board[new_row][new_col])>>
            ELSE <<>>
    IN forward \o capture(-1) \o capture(1)

\* The inner loop shared by the rook, queen and bishop generators: one ray
RECURSIVE _slide(_, _, _, _, _, _, _)
RECURSIVE _slide_short(_, _, _, _, _, _, _)
\* Mutant of the ray loop: range(1, min(self.rows, self.cols))
_slide_short(b, row, col, piece, dr, dc, i) ==
    IF i >= Min2(b.rows, b.cols) THEN <<>>
    ELSE LET new_row == row + dr * i
             new_col == col + dc * i
         IN IF ~is_valid_pos(b, new_row, new_col) THEN <<>>
            ELSE LET target == b.board[new_row][new_col] IN
                 IF target = None
                 THEN <<Move(<<row, col>>, <<new_row, new_col>>, piece, None)>>
                      \o _slide_short(b, row, col, piece, dr, dc, i + 1)
                 ELSE IF target.color # piece.color
                 THEN <<Move(<<row, col>>, <<new_row, new_col>>, piece, target)>>
                 ELSE <<>>

_slide(b, row, col, piece, dr, dc, i) ==
    IF i >= Max2(b.rows, b.cols) THEN <<>>
    ELSE LET new_row == row + dr * i
             new_col == col + dc * i
         IN IF ~is_valid_pos(b, new_row, new_col) THEN <<>>
            ELSE LET target == b.board[new_row][new_col] IN
                 IF target = None
                 THEN <<Move(<<row, col>>, <<new_row, new_col>>, piece, None)>>
                      \o _slide(b, row, col, piece, dr, dc, i + 1)
                 ELSE IF target.color # piece.color
                 THEN <<Move(<<row, col>>, <<new_row, new_col>>, piece, target)>>
                 ELSE <<>>

RookDirections == <<<<0, 1>>, <<0, -1>>, <<1, 0>>, <<-1, 0>>>>

BishopDirections == <<<<1, 1>>, <<1, -1>>, <<-1, 1>>, <<-1, -1>>>>

QueenDirections == RookDirections \o BishopDirections

_generate_rook_moves(b, row, col, piece) ==
    Flatten([d \in 1..Len(RookDirections) |->
        _slide(b, row, col, piece, RookDirections[d][1], RookDirections[d][2], 1)])

_generate_queen_moves(b, row, col, piece) ==
    Flatten([d \in 1..Len(QueenDirections) |->
        _slide(b, row, col, piece, QueenDirections[d][1], QueenDirections[d][2], 1)])

_generate_bishop_moves(b, row, col, piece) ==
    Flatten([d \in 1..Len(BishopDirections) |->
        _slide(b, row, col, piece, BishopDirections[d][1], BishopDirections[d][2], 1)])

\* The loop body shared by the knight and king generators: one offset
\* Mutant of the loop body of the knight and king moves: the colour of the piece on
\* the target square is not looked at
_leap_onto_any(b, row, col, piece, dr, dc) ==
    LET new_row == row + dr
        new_col == col + dc
    IN IF is_valid_pos(b, new_row, new_col)
       THEN <<Move(<<row, col>>, <<new_row, new_col>>, piece, b.board[new_row][new_col])>>
       ELSE <<>>

_leap(b, row, col, piece, dr, dc) ==
    LET new_row == row + dr
        new_col == col + dc
    IN IF is_valid_pos(b, new_row, new_col)
          /\ (b.board[new_row][new_col] = None
              \/ b.board[new_row][new_col].color # piece.color)
       THEN <<Move(<<row, col>>, <<new_row, new_col>>, piece, b.board[new_row][new_col])>>
       ELSE <<>>

knight_offsets ==
    <<<<2, 1>>, <<2, -1>>, <<-2, 1>>, <<-2, -1>>, <<1, 2>>, <<1, -2>>, <<-1, 2>>, <<-1, -2>>>>

_generate_knight_moves(b, row, col, piece) ==
    Flatten([d \in 1..Len(knight_offsets) |->
        _leap(b, row, col, piece, knight_offsets[d][1], knight_offsets[d][2])])

_generate_king_moves(b, row, col, piece) ==
    Flatten([d \in 1..Len(QueenDirections) |->
        _leap(b, row, col, piece, QueenDirections[d][1], QueenDirections[d][2])])

_generate_piece_moves(b, row, col, piece) ==
    CASE piece.type = PAWN -> _generate_pawn_moves(b, row, col, piece)
      [] piece.type = ROOK -> _generate_rook_moves(b, row, col, piece)
      [] piece.type = BISHOP -> _generate_bishop_moves(b, row, col, piece)
      [] piece.type = KNIGHT -> _generate_knight_moves(b, row, col, piece)
      [] piece.type = QUEEN -> _generate_queen_moves(b, row, col, piece)
      [] piece.type = KING -> _generate_king_moves(b, row, col, piece)
      [] OTHER -> <<>>

\* The pseudo-legal moves of every piece of `color`, in scan order
PseudoMoves(b, color) ==
    Flatten([i \in 1..(b.rows * b.cols) |->
        LET row == (i - 1) \div b.cols
            col == (i - 1) % b.cols
            piece == b.board[row][col]
        IN IF piece # None /\ piece.color = color
           THEN _generate_piece_moves(b, row, col, piece)
           ELSE <<>>])

(***************************************************************************)
(* Check / legality filter                                                 *)
(***************************************************************************)
\* (row, col) of the first king of `color` in scan order, or <<-1, -1>> for None
_find_king(b, color) ==
    LET ks == {i \in 1..(b.rows * b.cols) :
                  LET p == b.board[(i - 1) \div b.cols][(i - 1) % b.cols]
                  IN p.type = KING /\ p.color = color}
    IN IF ks = {} THEN <<-1, -1>>
       ELSE LET k == CHOOSE i \in ks : \A j \in ks : i <= j
            IN <<(k - 1) \div b.cols, (k - 1) % b.cols>>

\* Mutant of _is_square_attacked: the moves of pawns are not looked at
_is_square_attacked_not_by_pawns(b, row, col, by_color) ==
    \E i \in 1..(b.rows * b.cols) :
        LET r == (i - 1) \div b.cols
            c == (i - 1) % b.cols
            piece == b.board[r][c]
        IN /\ piece # None
           /\ piece.color = by_color
           /\ piece.type # PAWN
           /\ \E move \in Range(_generate_piece_moves(b, r, c, piece)) :
                 move.to_pos = <<row, col>>

_is_square_attacked(b, row, col, by_color) ==
    \E i \in 1..(b.rows * b.cols) :
        LET r == (i - 1) \div b.cols
            c == (i - 1) % b.cols
            piece == b.board[r][c]
        IN /\ piece # None
           /\ piece.color = by_color
           /\ \E move \in Range(_generate_piece_moves(b, r, c, piece)) :
                 move.to_pos = <<row, col>>

is_in_check(b, color) ==
    LET king_pos == _find_king(b, color)
        opponent_color == IF color = WHITE THEN BLACK ELSE WHITE
    IN IF king_pos = <<-1, -1>> THEN FALSE
       ELSE _is_square_attacked(b, king_pos[1], king_pos[2], opponent_color)

\* The board while the move is made temporarily (lines 375-377)
TempBoard(b, move) ==
    [b EXCEPT !.board =
        [[b.board EXCEPT ![move.to_pos[1]][move.to_pos[2]] =
                             b.board[move.from_pos[1]][move.from_pos[2]]]
            EXCEPT ![move.from_pos[1]][move.from_pos[2]] = None]]

_move_leaves_king_in_check(b, move) == is_in_check(TempBoard(b, move), move.piece.color)

\* Mutant: the piece that stood on the destination is not put back
_move_leaves_king_in_check_board_no_restore(b, move) ==
    LET from_row == move.from_pos[1]
        from_col == move.from_pos[2]
        to_row == move.to_pos[1]
        to_col == move.to_pos[2]
        made == [[b.board EXCEPT ![to_row][to_col] = b.board[from_row][from_col]]
                    EXCEPT ![from_row][from_col] = None]
    IN [b EXCEPT !.board = [[made EXCEPT ![from_row][from_col] = made[to_row][to_col]]
                               EXCEPT ![to_row][to_col] = None]]

\* self as _move_leaves_king_in_check leaves it: the move is made on self.board, the
\* check is read, and the two cells are assigned back
_move_leaves_king_in_check_board(b, move) ==
    LET from_row == move.from_pos[1]
        from_col == move.from_pos[2]
        to_row == move.to_pos[1]
        to_col == move.to_pos[2]
        saved_piece == b.board[to_row][to_col]
        made == [[b.board EXCEPT ![to_row][to_col] = b.board[from_row][from_col]]
                    EXCEPT ![from_row][from_col] = None]
    IN [b EXCEPT !.board = [[made EXCEPT ![from_row][from_col] = made[to_row][to_col]]
                               EXCEPT ![to_row][to_col] = saved_piece]]

\* self as generate_legal_moves leaves it: the filter loop runs over the moves
\* collected before it, entered at the i-th move
RECURSIVE filter_loop_board(_, _, _)
filter_loop_board(b, moves, i) ==
    IF i > Len(moves) THEN b
    ELSE filter_loop_board(_move_leaves_king_in_check_board(b, moves[i]), moves, i + 1)

generate_legal_moves_board(b) == filter_loop_board(b, PseudoMoves(b, b.turn), 1)

\* Mutant of generate_legal_moves: the filter loop is left out
generate_legal_moves_unfiltered(b) == PseudoMoves(b, b.turn)

generate_legal_moves(b) ==
    SelectSeq(PseudoMoves(b, b.turn), LAMBDA move : ~_move_leaves_king_in_check(b, move))

(***************************************************************************)
(* make_move and copy, on board values                                     *)
(***************************************************************************)
\* Mutant of make_move: the clock is reset by captures only
make_move_capture_only(b, move) ==
    LET from_row == move.from_pos[1]
        from_col == move.from_pos[2]
        to_row == move.to_pos[1]
        to_col == move.to_pos[2]
        board1 == [b.board EXCEPT ![to_row][to_col] = b.board[from_row][from_col]]
        board2 == [board1 EXCEPT ![from_row][from_col] = None]
    IN [b EXCEPT
          !.board = board2,
          !.halfmove_clock = IF move.captured # None THEN 0 ELSE b.halfmove_clock + 1,
          !.fullmove_number = IF b.turn = BLACK THEN b.fullmove_number + 1
                              ELSE b.fullmove_number,
          !.turn = IF b.turn = WHITE THEN BLACK ELSE WHITE,
          !.move_history = Append(b.move_history, move)]

\* The attributes of the board after self.make_move(move); no check is made
make_move(b, move) ==
    LET from_row == move.from_pos[1]
        from_col == move.from_pos[2]
        to_row == move.to_pos[1]
        to_col == move.to_pos[2]
        board1 == [b.board EXCEPT ![to_row][to_col] = b.board[from_row][from_col]]
        board2 == [board1 EXCEPT ![from_row][from_col] = None]
    IN [b EXCEPT
          !.board = board2,
          !.halfmove_clock = IF move.captured # None \/ move.piece.type = PAWN
                             THEN 0 ELSE b.halfmove_clock + 1,
          !.fullmove_number = IF b.turn = BLACK THEN b.fullmove_number + 1
                              ELSE b.fullmove_number,
          !.turn = IF b.turn = WHITE THEN BLACK ELSE WHITE,
          !.move_history = Append(b.move_history, move)]

\* What make_move returns (line 411)
make_move_returns(b, move) == TRUE

\* The attributes of self.copy(): a new MinichessBoard(variant) with the grid rebuilt
\* cell by cell and the scalar attributes assigned
copy(b) ==
    [MinichessBoard(b.variant) EXCEPT
        !.board = [r \in 0..(b.rows - 1) |-> [c \in 0..(b.cols - 1) |-> b.board[r][c]]],
        !.turn = b.turn,
        !.move_history = b.move_history,
        !.fullmove_number = b.fullmove_number,
        !.halfmove_clock = b.halfmove_clock]

(***************************************************************************)
(* Termination detector                                                    *)
(***************************************************************************)
\* Mutant of is_checkmate: the check test is left out
is_checkmate_no_check_test(b) == Len(generate_legal_moves(b)) = 0

is_checkmate(b) ==
    IF ~is_in_check(b, b.turn) THEN FALSE
    ELSE Len(generate_legal_moves(b)) = 0

\* Mutant of is_stalemate: the check test is left out
is_stalemate_no_check_test(b) == Len(generate_legal_moves(b)) = 0

is_stalemate(b) ==
    IF is_in_check(b, b.turn) THEN FALSE
    ELSE Len(generate_legal_moves(b)) = 0

\* Mutant of is_game_over: the clock draws only past 50
is_game_over_past_50(b) ==
    IF is_checkmate(b) \/ is_stalemate(b) THEN TRUE
    ELSE IF b.halfmove_clock > 50 THEN TRUE
    ELSE FALSE

\* Mutant of is_game_over: the clock draws only when no pawn is left
is_game_over_clock_without_pawns(b) ==
    IF is_checkmate(b) \/ is_stalemate(b) THEN TRUE
    ELSE IF b.halfmove_clock >= 50
            /\ \A r \in 0..(b.rows - 1), c \in 0..(b.cols - 1) :
                   b.board[r][c] = None \/ b.board[r][c].type # PAWN
         THEN TRUE
    ELSE FALSE

is_game_over(b) ==
    IF is_checkmate(b) \/ is_stalemate(b) THEN TRUE
    ELSE IF b.halfmove_clock >= 50 THEN TRUE
    ELSE FALSE

\* Mutant of get_result: the clock is tested before checkmate
get_result_clock_first(b) ==
    IF b.halfmove_clock >= 50 THEN "1/2-1/2"
    ELSE IF is_checkmate(b) THEN (IF b.turn = WHITE THEN "0-1" ELSE "1-0")
    ELSE IF is_stalemate(b) THEN "1/2-1/2"
    ELSE "*"

get_result(b) ==
    IF is_checkmate(b) THEN (IF b.turn = WHITE THEN "0-1" ELSE "1-0")
    ELSE IF is_stalemate(b) THEN "1/2-1/2"
    ELSE IF b.halfmove_clock >= 50 THEN "1/2-1/2"
    ELSE "*"

(***************************************************************************)
(* Engines.  Scores are fixed-point: 1.0 is 1000.                          *)
(***************************************************************************)
PIECE_VALUES(type) ==
    CASE type = PAWN -> 1000
      [] type = KNIGHT -> 3000
      [] type = BISHOP -> 3100
      [] type = ROOK -> 5000
      [] type = QUEEN -> 9000
      [] type = KING -> 0
      [] OTHER -> 0

RECURSIVE SumSeq(_)
SumSeq(s) == IF s = <<>> THEN 0 ELSE Head(s) + SumSeq(Tail(s))

material_eval(b) ==
    SumSeq([i \in 1..(b.rows * b.cols) |->
        LET piece == b.board[(i - 1) \div b.cols][(i - 1) % b.cols]
        IN IF piece = None THEN 0
           ELSE IF piece.color = WHITE THEN PIECE_VALUES(piece.type)
           ELSE 0 - PIECE_VALUES(piece.type)])

\* RandomEngine.get_move: the set of values random.choice can return
RandomEngine_get_move(b) ==
    LET legal_moves == generate_legal_moves(b)
    IN IF legal_moves = <<>> THEN {NoMove} ELSE Range(legal_moves)

\* Mutant of evaluate_move_delta: delta is not negated when Black is to move
evaluate_move_delta_white_view(b, move) ==
    LET after == material_eval(make_move(copy(b), move))
        center_squares == IF b.variant = "4x4"
                          THEN {<<1, 1>>, <<1, 2>>, <<2, 1>>, <<2, 2>>}
                          ELSE {<<2, 1>>, <<2, 2>>}
        to_row == move.to_pos[1]
    IN (after - material_eval(b))
       + (IF move.to_pos \in center_squares THEN 150 ELSE 0)
       + (IF move.piece.type # PAWN THEN 0
          ELSE IF b.turn = WHITE THEN to_row * 100
          ELSE (b.rows - 1 - to_row) * 100)

evaluate_move_delta(b, move) ==
    LET side_to_move == b.turn
        before == material_eval(b)
        after == material_eval(make_move(copy(b), move))
        delta == IF side_to_move = BLACK THEN 0 - (after - before) ELSE after - before
        center_squares == IF b.variant = "4x4"
                          THEN {<<1, 1>>, <<1, 2>>, <<2, 1>>, <<2, 2>>}
                          ELSE {<<2, 1>>, <<2, 2>>}
        center_bonus == IF move.to_pos \in center_squares THEN 150 ELSE 0
        to_row == move.to_pos[1]
        pawn_bonus == IF move.piece.type # PAWN THEN 0
                      ELSE IF side_to_move = WHITE THEN to_row * 100
                      ELSE (b.rows - 1 - to_row) * 100
    IN delta + center_bonus + pawn_bonus

\* GreedyEngine.get_move: the set of values random.choice(best_moves) can return
GreedyEngine_get_move(b) ==
    LET legal_moves == generate_legal_moves(b)
        move_scores == [i \in DOMAIN legal_moves |-> evaluate_move_delta(b, legal_moves[i])]
    IN IF legal_moves = <<>> THEN {NoMove}
       ELSE LET best_score == CHOOSE s \in Range(move_scores) :
                                  \A t \in Range(move_scores) : t <= s
            IN {legal_moves[i] : i \in {j \in DOMAIN legal_moves : move_scores[j] = best_score}}

(***************************************************************************)
(* MinimaxEngine                                                           *)
(***************************************************************************)
\* float('inf')
Inf == 1000000000

\* The draws random.uniform(-0.001, 0.001) makes during one search, one per evaluated
\* position: -1, 0 or 1 thousandth of 0.001 * 1000.  The material and mobility terms
\* are multiples of 50, so a draw only ever orders positions that are otherwise equal.
\* `seed` indexes the assignment of draws to positions; seed 0 draws 0 everywhere.
uniform(b, seed) ==
    IF seed = 0 THEN 0
    ELSE LET h == SumSeq([i \in 1..(b.rows * b.cols) |->
                     LET piece == b.board[(i - 1) \div b.cols][(i - 1) % b.cols]
                     IN IF piece = None THEN 0
                        ELSE IF piece.color = WHITE THEN i * seed ELSE i * (seed + 1)])
         IN ((h + seed) % 3) - 1

\* Mutant of evaluate_position: the random factor is added to the terminal values too
evaluate_position_noise_everywhere(b, seed) ==
    uniform(b, seed)
    + (IF is_checkmate(b) THEN (IF b.turn = WHITE THEN -9999000 ELSE 9999000)
       ELSE IF is_stalemate(b) \/ b.halfmove_clock >= 50 THEN 0
       ELSE material_eval(b)
            + (IF b.fullmove_number >= 5 THEN 0
               ELSE IF b.turn = WHITE THEN Len(generate_legal_moves(b)) * 50
               ELSE 0 - Len(generate_legal_moves(b)) * 50))

evaluate_position(b, seed) ==
    IF is_checkmate(b) THEN (IF b.turn = WHITE THEN -9999000 ELSE 9999000)
    ELSE IF is_stalemate(b) \/ b.halfmove_clock >= 50 THEN 0
    ELSE LET score == material_eval(b)
             mobility == Len(generate_legal_moves(b))
             mobility_bonus == mobility * 50
             with_mobility ==
                 IF b.fullmove_number < 5
                 THEN (IF b.turn = WHITE THEN score + mobility_bonus
                       ELSE score - mobility_bonus)
                 ELSE score
         IN with_mobility + uniform(b, seed)

move_priority(b, move) ==
    LET capture_score == IF move.captured # None
                         THEN 10000 + PIECE_VALUES(move.captured.type) ELSE 0
        board_copy == make_move(copy(b), move)
        opponent == IF b.turn = WHITE THEN BLACK ELSE WHITE
        check_score == IF is_in_check(board_copy, opponent) THEN 5000 ELSE 0
    IN 0 - (capture_score + check_score)

\* sorted(moves, key=...): ascending by key, equal keys in their given order;
\* key[i] is the key of moves[i]
sorted(moves, key) ==
    LET WithKey(k) ==
            LET idx == SelectSeq([i \in DOMAIN moves |-> i], LAMBDA i : key[i] = k)
            IN [j \in DOMAIN idx |-> moves[idx[j]]]
        RECURSIVE Sorted(_)
        Sorted(K) ==
            IF K = {} THEN <<>>
            ELSE LET k == CHOOSE x \in K : \A y \in K : x <= y
                 IN WithKey(k) \o Sorted(K \ {k})
    IN Sorted(Range(key))

order_moves(b, moves) ==
    sorted(moves, [i \in DOMAIN moves |-> move_priority(b, moves[i])])

\* minimax returns [score, nodes]: its value and the number of times it added 1 to
\* self.nodes_searched.  The two loops carry the loop variables of the code.
RECURSIVE minimax(_, _, _, _, _, _)
RECURSIVE minimax_max_loop(_, _, _, _, _, _, _, _, _)
RECURSIVE minimax_min_loop(_, _, _, _, _, _, _, _, _)

minimax_max_loop(b, depth, legal_moves, i, alpha, beta, max_eval, nodes, seed) ==
    IF i > Len(legal_moves) THEN [score |-> max_eval, nodes |-> nodes]
    ELSE LET board_copy == make_move(copy(b), legal_moves[i])
             \* the rest of the loop body, once the recursive call has returned
             rest(eval_score, searched, max_eval2, alpha2) ==
                 IF beta <= alpha2
                 THEN [score |-> max_eval2, nodes |-> nodes + searched]
                 ELSE minimax_max_loop(b, depth, legal_moves, i + 1, alpha2, beta, max_eval2,
                             nodes + searched, seed)
             body(sub) ==
                 rest(sub.score, sub.nodes, Max2(max_eval, sub.score), Max2(alpha, sub.score))
         IN body(minimax(board_copy, depth - 1, alpha, beta, FALSE, seed))

\* Mutant of minimax_min_loop: the cut-off comparison is turned round
minimax_min_loop_flipped(b, depth, legal_moves, i, alpha, beta, min_eval, nodes, seed) ==
    IF i > Len(legal_moves) THEN [score |-> min_eval, nodes |-> nodes]
    ELSE LET board_copy == make_move(copy(b), legal_moves[i])
             \* the rest of the loop body, once the recursive call has returned
             rest(eval_score, searched, min_eval2, beta2) ==
                 IF beta2 >= alpha
                 THEN [score |-> min_eval2, nodes |-> nodes + searched]
                 ELSE minimax_min_loop(b, depth, legal_moves, i + 1, alpha, beta2, min_eval2,
                             nodes + searched, seed)
             body(sub) ==
                 rest(sub.score, sub.nodes, Min2(min_eval, sub.score), Min2(beta, sub.score))
         IN body(minimax(board_copy, depth - 1, alpha, beta, TRUE, seed))

minimax_min_loop(b, depth, legal_moves, i, alpha, beta, min_eval, nodes, seed) ==
    IF i > Len(legal_moves) THEN [score |-> min_eval, nodes |-> nodes]
    ELSE LET board_copy == make_move(copy(b), legal_moves[i])
             \* the rest of the loop body, once the recursive call has returned
             rest(eval_score, searched, min_eval2, beta2) ==
                 IF beta2 <= alpha
                 THEN [score |-> min_eval2, nodes |-> nodes + searched]
                 ELSE minimax_min_loop(b, depth, legal_moves, i + 1, alpha, beta2, min_eval2,
                             nodes + searched, seed)
             body(sub) ==
                 rest(sub.score, sub.nodes, Min2(min_eval, sub.score), Min2(beta, sub.score))
         IN body(minimax(board_copy, depth - 1, alpha, beta, TRUE, seed))

minimax(b, depth, alpha, beta, maximizing, seed) ==
    IF depth = 0 \/ is_game_over(b)
    THEN [score |-> evaluate_position(b, seed), nodes |-> 1]
    ELSE LET legal_moves == order_moves(b, generate_legal_moves(b))
         IN IF maximizing
            THEN minimax_max_loop(b, depth, legal_moves, 1, alpha, beta, 0 - Inf, 1, seed)
            ELSE minimax_min_loop(b, depth, legal_moves, 1, alpha, beta, Inf, 1, seed)

\* The root loops of MinimaxEngine.get_move: [move, nodes_searched]
RECURSIVE get_move_loop(_, _, _, _, _, _, _, _, _)
RECURSIVE get_move_loop_last_best(_, _, _, _, _, _, _, _, _)
\* Mutant of the loop of MinimaxEngine.get_move: a move as good as the best so far
\* replaces it
get_move_loop_last_best(b, depth, legal_moves, i, maximizing, best_score, best_move, nodes, seed) ==
    IF i > Len(legal_moves) THEN [move |-> best_move, nodes_searched |-> nodes]
    ELSE LET move == legal_moves[i]
             board_copy == make_move(copy(b), move)
             rest(score, searched, better) ==
                 get_move_loop_last_best(b, depth, legal_moves, i + 1, maximizing,
                                         IF better THEN score ELSE best_score,
                                         IF better THEN move ELSE best_move,
                                         nodes + searched, seed)
             body(sub) ==
                 rest(sub.score, sub.nodes,
                      IF maximizing THEN sub.score >= best_score
                      ELSE sub.score <= best_score)
         IN body(minimax(board_copy, depth - 1, 0 - Inf, Inf, ~maximizing, seed))

get_move_loop(b, depth, legal_moves, i, maximizing, best_score, best_move, nodes, seed) ==
    IF i > Len(legal_moves) THEN [move |-> best_move, nodes_searched |-> nodes]
    ELSE LET move == legal_moves[i]
             board_copy == make_move(copy(b), move)
             \* the rest of the loop body, once minimax has returned
             rest(score, searched, better) ==
                 get_move_loop(b, depth, legal_moves, i + 1, maximizing,
                               IF better THEN score ELSE best_score,
                               IF better THEN move ELSE best_move,
                               nodes + searched, seed)
             body(sub) ==
                 rest(sub.score, sub.nodes,
                      IF maximizing THEN sub.score > best_score
                      ELSE sub.score < best_score)
         IN body(minimax(board_copy, depth - 1, 0 - Inf, Inf, ~maximizing, seed))

\* Mutant of MinimaxEngine.get_move: best_score starts at the wrong infinity
MinimaxEngine_get_move_wrong_start(eng, b, seed) ==
    LET legal_moves == generate_legal_moves(b)
        maximizing == (b.turn = WHITE)
    IN IF legal_moves = <<>>
       THEN [move |-> NoMove, nodes_searched |-> eng.nodes_searched]
       ELSE get_move_loop(b, eng.depth, legal_moves, 1, maximizing,
                          IF maximizing THEN Inf ELSE 0 - Inf, NoMove, 0, seed)

\* MinimaxEngine.get_move of an engine [depth, nodes_searched], under the draws `seed`
MinimaxEngine_get_move(eng, b, seed) ==
    LET legal_moves == generate_legal_moves(b)
        maximizing == (b.turn = WHITE)
    IN IF legal_moves = <<>>
       THEN [move |-> NoMove, nodes_searched |-> eng.nodes_searched]
       ELSE get_move_loop(b, eng.depth, legal_moves, 1, maximizing,
                          IF maximizing THEN 0 - Inf ELSE Inf, NoMove, 0, seed)

(***************************************************************************)
(* The heap: board objects hold references to their grid and history lists *)
(***************************************************************************)
NullRef == 0

\* The attributes of object o with its grid and history list read through
Deref(o) ==
    [objs[o] EXCEPT !.board = grids[objs[o].board],
                    !.move_history = lists[objs[o].move_history]]

\* The object named "board" in the game loops
cur == Deref("board")

NullObj ==
    [variant |-> "-", pawn_double_move |-> FALSE, rows |-> 0, cols |-> 0,
     board |-> NullRef, turn |-> "-", move_history |-> NullRef,
     fullmove_number |-> 0, halfmove_clock |-> 0]

(***************************************************************************)
(* Move.__str__ and the replay of a list of move strings (minichess_gui)   *)
(***************************************************************************)
\* A Python str is the sequence of its characters.  The decimal digits of n >= 0
RECURSIVE str_int(_)
str_int(n) ==
    LET digits == <<"0", "1", "2", "3", "4", "5", "6", "7", "8", "9">>
    IN IF n < 10 THEN <<digits[n + 1]>>
       ELSE str_int(n \div 10) \o <<digits[(n % 10) + 1]>>

\* Mutant of Move.__str__: the origin square is left out
Move__str__to_only(move) ==
    LET cols == <<"a", "b", "c", "d", "e", "f">>
        to_str == <<cols[move.to_pos[2] + 1]>> \o str_int(move.to_pos[1] + 1)
    IN IF move.captured # None THEN <<"x">> \o to_str ELSE <<"-">> \o to_str

Move__str__(move) ==
    LET cols == <<"a", "b", "c", "d", "e", "f">>
        from_str == <<cols[move.from_pos[2] + 1]>> \o str_int(move.from_pos[1] + 1)
        to_str == <<cols[move.to_pos[2] + 1]>> \o str_int(move.to_pos[1] + 1)
    IN IF move.captured # None THEN from_str \o <<"x">> \o to_str
       ELSE from_str \o <<"-">> \o to_str

\* for move_str in moves_to_replay: the first legal move whose string is move_str is
\* applied and move_str appended to move_history; a string no legal move has is
\* passed over.  [board, move_history] after the loop, entered at the i-th string
RECURSIVE replay_loop(_, _, _, _)
replay_loop(board, move_history, moves_to_replay, i) ==
    IF i > Len(moves_to_replay) THEN [board |-> board, move_history |-> move_history]
    ELSE LET next(matching) ==
                 IF matching = <<>>
                 THEN replay_loop(board, move_history, moves_to_replay, i + 1)
                 ELSE replay_loop(make_move(board, Head(matching)),
                                  Append(move_history, moves_to_replay[i]),
                                  moves_to_replay, i + 1)
         IN next(SelectSeq(generate_legal_moves(board),
                           LAMBDA mv : Move__str__(mv) = moves_to_replay[i]))

(***************************************************************************)
(* Recorded games.  Three 4x4 games, each a list of (from, to) squares,    *)
(* that run from the initial layout through a series of captures into 50   *)
(* plies without a capture or a pawn move: GameStalemate ends in stalemate *)
(* (Black to move), GameWhiteMates and GameBlackMates end in checkmate,    *)
(* each with halfmove_clock = 50.                                          *)
(***************************************************************************)
GameStalemate ==
    <<
      <<<<1, 0>>, <<2, 1>>>>, <<<<3, 1>>, <<2, 1>>>>, <<<<1, 3>>, <<2, 2>>>>, <<<<2, 1>>, <<1, 2>>>>,
      <<<<0, 1>>, <<1, 2>>>>, <<<<2, 3>>, <<1, 2>>>>, <<<<0, 2>>, <<1, 2>>>>, <<<<3, 3>>, <<0, 3>>>>,
      <<<<0, 0>>, <<0, 2>>>>, <<<<0, 3>>, <<0, 2>>>>, <<<<1, 2>>, <<0, 2>>>>, <<<<2, 0>>, <<1, 1>>>>,
      <<<<0, 2>>, <<1, 1>>>>, <<<<3, 0>>, <<2, 0>>>>, <<<<1, 1>>, <<2, 0>>>>, <<<<3, 2>>, <<2, 3>>>>,
      <<<<2, 0>>, <<2, 1>>>>, <<<<2, 3>>, <<1, 3>>>>, <<<<2, 1>>, <<2, 0>>>>, <<<<1, 3>>, <<1, 2>>>>,
      <<<<2, 0>>, <<3, 0>>>>, <<<<1, 2>>, <<1, 3>>>>, <<<<3, 0>>, <<3, 1>>>>, <<<<1, 3>>, <<1, 2>>>>,
      <<<<3, 1>>, <<3, 2>>>>, <<<<1, 2>>, <<1, 3>>>>, <<<<3, 2>>, <<3, 3>>>>, <<<<1, 3>>, <<1, 2>>>>,
      <<<<3, 3>>, <<3, 2>>>>, <<<<1, 2>>, <<1, 3>>>>, <<<<3, 2>>, <<3, 3>>>>, <<<<1, 3>>, <<1, 2>>>>,
      <<<<3, 3>>, <<3, 2>>>>, <<<<1, 2>>, <<1, 3>>>>, <<<<3, 2>>, <<3, 3>>>>, <<<<1, 3>>, <<1, 2>>>>,
      <<<<3, 3>>, <<3, 2>>>>, <<<<1, 2>>, <<1, 3>>>>, <<<<3, 2>>, <<3, 3>>>>, <<<<1, 3>>, <<1, 2>>>>,
      <<<<3, 3>>, <<3, 2>>>>, <<<<1, 2>>, <<1, 3>>>>, <<<<3, 2>>, <<3, 3>>>>, <<<<1, 3>>, <<1, 2>>>>,
      <<<<3, 3>>, <<3, 2>>>>, <<<<1, 2>>, <<1, 3>>>>, <<<<3, 2>>, <<3, 3>>>>, <<<<1, 3>>, <<1, 2>>>>,
      <<<<3, 3>>, <<3, 2>>>>, <<<<1, 2>>, <<1, 3>>>>, <<<<3, 2>>, <<3, 3>>>>, <<<<1, 3>>, <<1, 2>>>>,
      <<<<3, 3>>, <<3, 2>>>>, <<<<1, 2>>, <<1, 3>>>>, <<<<3, 2>>, <<3, 3>>>>, <<<<1, 3>>, <<1, 2>>>>,
      <<<<3, 3>>, <<3, 2>>>>, <<<<1, 2>>, <<1, 3>>>>, <<<<3, 2>>, <<3, 1>>>>, <<<<1, 3>>, <<1, 2>>>>,
      <<<<3, 1>>, <<2, 0>>>>, <<<<1, 2>>, <<2, 3>>>>, <<<<2, 0>>, <<1, 1>>>>, <<<<2, 3>>, <<3, 2>>>>,
      <<<<1, 1>>, <<1, 2>>>>
    >>
GameWhiteMates ==
    <<
      <<<<1, 0>>, <<2, 1>>>>, <<<<3, 1>>, <<2, 1>>>>, <<<<0, 0>>, <<2, 0>>>>, <<<<2, 1>>, <<2, 0>>>>,
      <<<<1, 3>>, <<2, 2>>>>, <<<<2, 0>>, <<2, 2>>>>, <<<<1, 1>>, <<2, 2>>>>, <<<<2, 3>>, <<1, 2>>>>,
      <<<<0, 1>>, <<1, 2>>>>, <<<<3, 3>>, <<0, 3>>>>, <<<<1, 2>>, <<0, 3>>>>, <<<<3, 2>>, <<2, 2>>>>,
      <<<<0, 3>>, <<3, 0>>>>, <<<<2, 2>>, <<2, 3>>>>, <<<<0, 2>>, <<0, 3>>>>, <<<<2, 3>>, <<2, 2>>>>,
      <<<<0, 3>>, <<0, 2>>>>, <<<<2, 2>>, <<2, 3>>>>, <<<<0, 2>>, <<0, 3>>>>, <<<<2, 3>>, <<2, 2>>>>,
      <<<<0, 3>>, <<0, 2>>>>, <<<<2, 2>>, <<2, 3>>>>, <<<<0, 2>>, <<0, 3>>>>, <<<<2, 3>>, <<2, 2>>>>,
      <<<<0, 3>>, <<0, 2>>>>, <<<<2, 2>>, <<2, 3>>>>, <<<<0, 2>>, <<0, 3>>>>, <<<<2, 3>>, <<2, 2>>>>,
      <<<<0, 3>>, <<0, 2>>>>, <<<<2, 2>>, <<2, 3>>>>, <<<<0, 2>>, <<0, 3>>>>, <<<<2, 3>>, <<2, 2>>>>,
      <<<<0, 3>>, <<0, 2>>>>, <<<<2, 2>>, <<2, 3>>>>, <<<<0, 2>>, <<0, 3>>>>, <<<<2, 3>>, <<2, 2>>>>,
      <<<<0, 3>>, <<0, 2>>>>, <<<<2, 2>>, <<2, 3>>>>, <<<<0, 2>>, <<0, 3>>>>, <<<<2, 3>>, <<2, 2>>>>,
      <<<<0, 3>>, <<0, 2>>>>, <<<<2, 2>>, <<2, 3>>>>, <<<<0, 2>>, <<0, 3>>>>, <<<<2, 3>>, <<2, 2>>>>,
      <<<<0, 3>>, <<0, 2>>>>, <<<<2, 2>>, <<2, 3>>>>, <<<<0, 2>>, <<0, 3>>>>, <<<<2, 3>>, <<2, 2>>>>,
      <<<<0, 3>>, <<0, 2>>>>, <<<<2, 2>>, <<2, 3>>>>, <<<<0, 2>>, <<0, 3>>>>, <<<<2, 3>>, <<2, 2>>>>,
      <<<<0, 3>>, <<0, 2>>>>, <<<<2, 2>>, <<2, 3>>>>, <<<<0, 2>>, <<0, 3>>>>, <<<<2, 3>>, <<2, 2>>>>,
      <<<<0, 3>>, <<0, 2>>>>, <<<<2, 2>>, <<2, 3>>>>, <<<<0, 2>>, <<0, 1>>>>, <<<<2, 3>>, <<2, 2>>>>,
      <<<<3, 0>>, <<3, 2>>>>, <<<<2, 2>>, <<1, 3>>>>, <<<<3, 2>>, <<3, 3>>>>
    >>
GameBlackMates ==
    <<
      <<<<1, 1>>, <<2, 0>>>>, <<<<2, 2>>, <<1, 3>>>>, <<<<0, 3>>, <<1, 3>>>>, <<<<2, 3>>, <<1, 2>>>>,
      <<<<1, 0>>, <<2, 1>>>>, <<<<3, 1>>, <<2, 1>>>>, <<<<1, 3>>, <<3, 3>>>>, <<<<3, 2>>, <<3, 3>>>>,
      <<<<0, 1>>, <<1, 2>>>>, <<<<3, 0>>, <<2, 0>>>>, <<<<1, 2>>, <<2, 3>>>>, <<<<2, 1>>, <<2, 3>>>>,
      <<<<0, 0>>, <<2, 0>>>>, <<<<2, 3>>, <<2, 0>>>>, <<<<0, 2>>, <<0, 3>>>>, <<<<2, 0>>, <<2, 1>>>>,
      <<<<0, 3>>, <<0, 2>>>>, <<<<2, 1>>, <<2, 2>>>>, <<<<0, 2>>, <<0, 3>>>>, <<<<2, 2>>, <<2, 3>>>>,
      <<<<0, 3>>, <<0, 2>>>>, <<<<2, 3>>, <<2, 2>>>>, <<<<0, 2>>, <<0, 3>>>>, <<<<2, 2>>, <<2, 3>>>>,
      <<<<0, 3>>, <<0, 2>>>>, <<<<2, 3>>, <<2, 2>>>>, <<<<0, 2>>, <<0, 3>>>>, <<<<2, 2>>, <<2, 3>>>>,
      <<<<0, 3>>, <<0, 2>>>>, <<<<2, 3>>, <<2, 2>>>>, <<<<0, 2>>, <<0, 3>>>>, <<<<2, 2>>, <<2, 3>>>>,
      <<<<0, 3>>, <<0, 2>>>>, <<<<2, 3>>, <<2, 2>>>>, <<<<0, 2>>, <<0, 3>>>>, <<<<2, 2>>, <<2, 3>>>>,
      <<<<0, 3>>, <<0, 2>>>>, <<<<2, 3>>, <<2, 2>>>>, <<<<0, 2>>, <<0, 3>>>>, <<<<2, 2>>, <<2, 3>>>>,
      <<<<0, 3>>, <<0, 2>>>>, <<<<2, 3>>, <<2, 2>>>>, <<<<0, 2>>, <<0, 3>>>>, <<<<2, 2>>, <<2, 3>>>>,
      <<<<0, 3>>, <<0, 2>>>>, <<<<2, 3>>, <<2, 2>>>>, <<<<0, 2>>, <<0, 3>>>>, <<<<2, 2>>, <<2, 3>>>>,
      <<<<0, 3>>, <<0, 2>>>>, <<<<2, 3>>, <<2, 2>>>>, <<<<0, 2>>, <<0, 3>>>>, <<<<2, 2>>, <<2, 3>>>>,
      <<<<0, 3>>, <<0, 2>>>>, <<<<2, 3>>, <<2, 2>>>>, <<<<0, 2>>, <<0, 3>>>>, <<<<2, 2>>, <<2, 3>>>>,
      <<<<0, 3>>, <<0, 2>>>>, <<<<2, 3>>, <<2, 2>>>>, <<<<0, 2>>, <<0, 3>>>>, <<<<2, 2>>, <<3, 1>>>>,
      <<<<0, 3>>, <<0, 2>>>>, <<<<3, 3>>, <<2, 3>>>>, <<<<0, 2>>, <<0, 3>>>>, <<<<3, 1>>, <<0, 1>>>>
    >>
Games == <<GameStalemate, GameWhiteMates, GameBlackMates>>

\* Two more recorded 4x4 games: one that the clock ends with two black rooks and a
\* pawn against the bare white king, one that ends in stalemate with the last two
\* pawns blocking each other
GameTwoRooks ==
    <<
      <<<<1, 1>>, <<2, 0>>>>, <<<<3, 0>>, <<2, 0>>>>, <<<<0, 1>>, <<2, 1>>>>, <<<<3, 1>>, <<2, 1>>>>,
      <<<<1, 3>>, <<2, 2>>>>, <<<<3, 2>>, <<2, 2>>>>, <<<<0, 3>>, <<1, 3>>>>, <<<<2, 3>>, <<1, 2>>>>,
      <<<<1, 0>>, <<2, 1>>>>, <<<<2, 0>>, <<2, 1>>>>, <<<<0, 0>>, <<2, 0>>>>, <<<<2, 1>>, <<2, 0>>>>,
      <<<<1, 3>>, <<0, 3>>>>, <<<<1, 2>>, <<0, 3>>>>, <<<<0, 2>>, <<0, 1>>>>, <<<<2, 0>>, <<3, 0>>>>,
      <<<<0, 1>>, <<0, 2>>>>, <<<<3, 3>>, <<1, 3>>>>, <<<<0, 2>>, <<0, 1>>>>, <<<<2, 2>>, <<3, 3>>>>,
      <<<<0, 1>>, <<0, 2>>>>, <<<<3, 0>>, <<1, 0>>>>, <<<<0, 2>>, <<0, 1>>>>, <<<<3, 3>>, <<2, 2>>>>,
      <<<<0, 1>>, <<0, 2>>>>, <<<<1, 3>>, <<2, 3>>>>, <<<<0, 2>>, <<0, 1>>>>, <<<<2, 2>>, <<3, 1>>>>,
      <<<<0, 1>>, <<0, 2>>>>, <<<<1, 0>>, <<2, 0>>>>, <<<<0, 2>>, <<1, 1>>>>, <<<<2, 3>>, <<1, 3>>>>,
      <<<<1, 1>>, <<0, 2>>>>, <<<<3, 1>>, <<2, 2>>>>, <<<<0, 2>>, <<0, 1>>>>, <<<<1, 3>>, <<3, 3>>>>,
      <<<<0, 1>>, <<0, 2>>>>, <<<<3, 3>>, <<2, 3>>>>, <<<<0, 2>>, <<0, 1>>>>, <<<<2, 2>>, <<3, 1>>>>,
      <<<<0, 1>>, <<1, 1>>>>, <<<<2, 0>>, <<1, 0>>>>, <<<<1, 1>>, <<0, 2>>>>, <<<<1, 0>>, <<2, 0>>>>,
      <<<<0, 2>>, <<1, 1>>>>, <<<<2, 0>>, <<2, 2>>>>, <<<<1, 1>>, <<1, 0>>>>, <<<<2, 2>>, <<3, 2>>>>,
      <<<<1, 0>>, <<0, 0>>>>, <<<<2, 3>>, <<2, 0>>>>, <<<<0, 0>>, <<1, 1>>>>, <<<<2, 0>>, <<2, 3>>>>,
      <<<<1, 1>>, <<1, 0>>>>, <<<<2, 3>>, <<1, 3>>>>, <<<<1, 0>>, <<0, 1>>>>, <<<<3, 1>>, <<2, 2>>>>,
      <<<<0, 1>>, <<0, 2>>>>, <<<<2, 2>>, <<3, 1>>>>, <<<<0, 2>>, <<0, 1>>>>, <<<<1, 3>>, <<3, 3>>>>,
      <<<<0, 1>>, <<0, 0>>>>, <<<<3, 3>>, <<2, 3>>>>, <<<<0, 0>>, <<1, 1>>>>, <<<<3, 1>>, <<3, 0>>>>
    >>

GameBlockedPawns ==
    <<
      <<<<1, 3>>, <<2, 2>>>>, <<<<2, 1>>, <<1, 2>>>>, <<<<0, 3>>, <<2, 3>>>>, <<<<3, 3>>, <<2, 3>>>>,
      <<<<0, 1>>, <<1, 2>>>>, <<<<3, 1>>, <<1, 1>>>>, <<<<1, 2>>, <<1, 1>>>>, <<<<2, 3>>, <<2, 2>>>>,
      <<<<1, 1>>, <<1, 2>>>>, <<<<3, 0>>, <<3, 1>>>>, <<<<0, 0>>, <<0, 1>>>>, <<<<3, 1>>, <<0, 1>>>>,
      <<<<0, 2>>, <<0, 1>>>>, <<<<2, 2>>, <<1, 2>>>>, <<<<0, 1>>, <<1, 2>>>>, <<<<3, 2>>, <<3, 3>>>>,
      <<<<1, 2>>, <<0, 2>>>>, <<<<3, 3>>, <<2, 3>>>>, <<<<0, 2>>, <<0, 1>>>>, <<<<2, 3>>, <<2, 2>>>>,
      <<<<0, 1>>, <<0, 2>>>>, <<<<2, 2>>, <<3, 1>>>>, <<<<0, 2>>, <<0, 3>>>>, <<<<3, 1>>, <<2, 2>>>>,
      <<<<0, 3>>, <<0, 2>>>>, <<<<2, 2>>, <<3, 2>>>>, <<<<0, 2>>, <<1, 2>>>>, <<<<3, 2>>, <<3, 1>>>>,
      <<<<1, 2>>, <<1, 3>>>>, <<<<3, 1>>, <<3, 2>>>>, <<<<1, 3>>, <<0, 2>>>>, <<<<3, 2>>, <<2, 3>>>>,
      <<<<0, 2>>, <<0, 1>>>>, <<<<2, 3>>, <<3, 3>>>>, <<<<0, 1>>, <<0, 0>>>>, <<<<3, 3>>, <<3, 2>>>>,
      <<<<0, 0>>, <<0, 1>>>>, <<<<3, 2>>, <<2, 3>>>>, <<<<0, 1>>, <<0, 2>>>>, <<<<2, 3>>, <<2, 2>>>>,
      <<<<0, 2>>, <<0, 1>>>>, <<<<2, 2>>, <<3, 3>>>>, <<<<0, 1>>, <<1, 2>>>>, <<<<3, 3>>, <<3, 2>>>>,
      <<<<1, 2>>, <<1, 3>>>>, <<<<3, 2>>, <<3, 3>>>>, <<<<1, 3>>, <<0, 3>>>>, <<<<3, 3>>, <<2, 3>>>>,
      <<<<0, 3>>, <<0, 2>>>>, <<<<2, 3>>, <<3, 2>>>>, <<<<0, 2>>, <<1, 3>>>>, <<<<3, 2>>, <<3, 3>>>>,
      <<<<1, 3>>, <<0, 2>>>>, <<<<3, 3>>, <<2, 3>>>>, <<<<0, 2>>, <<0, 1>>>>, <<<<2, 3>>, <<3, 3>>>>,
      <<<<0, 1>>, <<0, 0>>>>, <<<<3, 3>>, <<2, 3>>>>, <<<<0, 0>>, <<0, 1>>>>, <<<<2, 3>>, <<1, 3>>>>,
      <<<<0, 1>>, <<0, 0>>>>, <<<<1, 3>>, <<1, 2>>>>
    >>

\* The recorded games whose last plies are played again in every possible way, and
\* how many plies before its end each is entered
EndGames == <<GameStalemate, GameWhiteMates, GameBlackMates, GameTwoRooks, GameBlockedPawns>>

EndGameBack == <<1, 1, 2, 2, 2>>

\* The board after a game loop applied moves lo..hi of `game` to b, each the legal
\* move of the position with the recorded squares (the range is halved, and the
\* first half evaluated before the second is entered, to keep the evaluation shallow)
RECURSIVE ReplayRange(_, _, _, _)
ReplayRange(b, game, lo, hi) ==
    IF lo > hi THEN b
    ELSE IF lo = hi
    THEN make_move(b, CHOOSE m \in Range(generate_legal_moves(b)) :
                          m.from_pos = game[lo][1] /\ m.to_pos = game[lo][2])
    ELSE LET mid == (lo + hi) \div 2
             p == ReplayRange(b, game, lo, mid)
         IN IF p.rows = 0 THEN p ELSE ReplayRange(p, game, mid + 1, hi)

Replay(b, game, n) == ReplayRange(b, game, 1, n)

\* One game of ten plies in each of the other variants, played by RandomEngine
\* against itself: the squares of its moves
GameSilverman ==
    <<
      <<<<1, 1>>, <<2, 1>>>>, <<<<3, 0>>, <<2, 1>>>>, <<<<1, 0>>, <<3, 0>>>>, <<<<4, 0>>, <<3, 0>>>>,
      <<<<0, 0>>, <<3, 0>>>>, <<<<3, 2>>, <<2, 2>>>>, <<<<0, 1>>, <<2, 1>>>>, <<<<4, 1>>, <<2, 3>>>>,
      <<<<2, 1>>, <<4, 3>>>>, <<<<4, 2>>, <<4, 3>>>>
    >>

GameDemi ==
    <<
      <<<<0, 2>>, <<2, 1>>>>, <<<<6, 0>>, <<5, 0>>>>, <<<<2, 1>>, <<3, 3>>>>, <<<<7, 1>>, <<6, 0>>>>,
      <<<<1, 2>>, <<2, 2>>>>, <<<<6, 0>>, <<4, 2>>>>, <<<<3, 3>>, <<5, 2>>>>, <<<<6, 3>>, <<5, 2>>>>,
      <<<<1, 0>>, <<2, 0>>>>, <<<<4, 2>>, <<2, 0>>>>
    >>

GameBaby ==
    <<
      <<<<1, 4>>, <<2, 4>>>>, <<<<3, 3>>, <<2, 4>>>>, <<<<1, 3>>, <<3, 3>>>>, <<<<4, 2>>, <<3, 3>>>>,
      <<<<0, 4>>, <<2, 4>>>>, <<<<3, 3>>, <<4, 2>>>>, <<<<2, 4>>, <<2, 0>>>>, <<<<4, 2>>, <<3, 3>>>>,
      <<<<2, 0>>, <<3, 0>>>>, <<<<4, 1>>, <<3, 0>>>>
    >>

GameMinit ==
    <<
      <<<<1, 2>>, <<3, 2>>>>, <<<<4, 3>>, <<2, 3>>>>, <<<<3, 2>>, <<4, 1>>>>, <<<<5, 1>>, <<4, 1>>>>,
      <<<<1, 0>>, <<3, 0>>>>, <<<<4, 1>>, <<1, 1>>>>, <<<<0, 1>>, <<1, 1>>>>, <<<<4, 2>>, <<2, 2>>>>,
      <<<<1, 1>>, <<1, 2>>>>, <<<<5, 3>>, <<3, 2>>>>
    >>

GameLosAlamos ==
    <<
      <<<<1, 2>>, <<2, 2>>>>, <<<<4, 5>>, <<3, 5>>>>, <<<<0, 2>>, <<1, 2>>>>, <<<<5, 1>>, <<3, 0>>>>,
      <<<<1, 2>>, <<2, 3>>>>, <<<<5, 5>>, <<4, 5>>>>, <<<<2, 3>>, <<4, 3>>>>, <<<<5, 3>>, <<4, 3>>>>,
      <<<<0, 1>>, <<2, 0>>>>, <<<<5, 2>>, <<5, 1>>>>
    >>

\* The recorded game of a variant
VariantGame(variant) ==
    CASE variant = "4x4" -> GameStalemate
      [] variant = "4x5" -> GameSilverman
      [] variant = "4x8" -> GameDemi
      [] variant = "5x5" -> GameBaby
      [] variant = "5x6" -> GameMinit
      [] variant = "6x6" -> GameLosAlamos

(***************************************************************************)
(* Bounds                                                                  *)
(***************************************************************************)
\* The variants games are started in
Variants == {"4x4", "4x5"}

\* Plies played from a fresh board
MaxPlies == 3

\* Plies played from a recorded game, which is entered SeedPlies - 1 plies before its end
SeedPlies == 3

\* Plies played in the games the minimax engine takes part in, and in those a search
\* is run from
SearchPlies == 2

\* Plies played, on either board, in the games a copy is taken in
CopyPlies == 3

\* make_move calls with a move of the caller's own making
ApiCalls == 1

\* Plies played in the games whose move lists are replayed, and the plies of a
\* recorded game already played when such a game is entered
ReplayPlies == 3

RecordedPlies == 24

\* The variants MinichessBoard supports, the plies of a variant's recorded game
\* already played when a game is entered, and the plies played from there
AllVariants == {"4x4", "4x5", "4x8", "5x5", "5x6", "6x6"}

VariantEntries == {0, 4, 6, 8, 10}

VariantPlies == 1

\* Plies played in the games MinimaxEngine chooses every move of
BestPlies == 1

\* The points of a variant's recorded game such a game is entered at
BestEntries == {0, 1, 2, 4, 6, 8, 10}

\* The assignments of random.uniform draws a search is run under
Seeds == {0, 1}

\* The depths MinimaxEngine is constructed with, and minimax is called with
Depths == {1, 2}

(***************************************************************************)
(* Initial states                                                          *)
(***************************************************************************)
\* What the last step did: the operation, the object it acted on, the engine asked,
\* the move returned or applied, what make_move returned, a search's draws, depth,
\* score and node count, and the attributes of the object acted on (before) and of
\* the other object (other) as they were before the step, and the values the object
\* had during a get_move call (seen)
NoOp ==
    [op |-> "init", obj |-> "board", engine |-> "-", move |-> NoMove, ret |-> TRUE,
     seed |-> 0, depth |-> 0, score |-> 0, nodes |-> 0,
     before |-> MinichessBoard("4x4"), other |-> MinichessBoard("4x4"), seen |-> <<>>]

\* The state of a game program (Main.py, gui.py, bot_vs_bot.py, minichess_gui.py)
\* before one is started: its board, its flags and what its last step did (ev)
ChessNone == 0

NoBoard == [variant |-> "-"]

NoEvent ==
    [name |-> "-", ret |-> ChessNone, move_stack |-> <<>>, move_history |-> <<>>,
     board |-> NoBoard, human |-> "-", running |-> FALSE, game_over |-> FALSE,
     setup_mode |-> FALSE, ai_thinking |-> FALSE, move |-> NoMove]

\* selected_square = None
NoSquare == <<-1, -1>>

NoApp ==
    [prog |-> "-", engine |-> "-", move_stack |-> <<>>, human |-> "-",
     running |-> FALSE, game_over |-> FALSE, game_running |-> FALSE, paused |-> FALSE,
     setup_mode |-> FALSE, ai_thinking |-> FALSE, board |-> NoBoard,
     move_history |-> <<>>, undo |-> [pending |-> FALSE, move_stack |-> <<>>],
     selected_square |-> NoSquare, legal_moves_for_selected |-> <<>>,
     ev |-> NoEvent]

\* board = MinichessBoard(variant), then the moves already played;
\* engine = MinimaxEngine(depth)
InitBoard(b, depth, budget) ==
    /\ app = NoApp
    /\ objs = [o \in {"board", "c"} |->
                 IF o = "board" THEN [b EXCEPT !.board = 1, !.move_history = 1]
                 ELSE NullObj]
    /\ grids = [r \in 1..2 |-> IF r = 1 THEN b.board ELSE <<>>]
    /\ lists = [r \in 1..2 |-> IF r = 1 THEN b.move_history ELSE <<>>]
    /\ engine = [depth |-> depth, nodes_searched |-> 0]
    /\ left = budget
    /\ last = NoOp

InitFresh(depth, budget) ==
    \E variant \in Variants : InitBoard(MinichessBoard(variant), depth, budget)

InitSeed(depth, budget) ==
    \E g \in DOMAIN Games :
        InitBoard(Replay(MinichessBoard("4x4"), Games[g], Len(Games[g]) - (budget - 1)),
                  depth, budget)

\* MinimaxEngine.__init__'s default depth is 4
Init == InitFresh(4, MaxPlies) \/ InitSeed(4, SeedPlies)

(***************************************************************************)
(* The caller's board during engine.get_move(board).  The lists of the     *)
(* call are kept in a heap of their own: heap[1] and heap[2] are the       *)
(* caller's grid and history, board.copy() appends two lists.              *)
(***************************************************************************)
SearchValue(heap, obj) ==
    [obj EXCEPT !.board = heap[obj.board], !.move_history = heap[obj.move_history]]

\* Mutant of copy during a search: the copy keeps the lists of the board it copies
search_copy_shared(heap, obj) == [heap |-> heap, obj |-> obj]

\* board_copy = board.copy(): [heap, obj], obj the new object
search_copy(heap, obj) ==
    LET nb == copy(SearchValue(heap, obj))
    IN [heap |-> heap \o <<nb.board, nb.move_history>>,
        obj |-> [nb EXCEPT !.board = Len(heap) + 1, !.move_history = Len(heap) + 2]]

\* obj.make_move(move): the heap and the object after it
search_make_move(heap, obj, move) ==
    LET after == make_move(SearchValue(heap, obj), move)
    IN [heap |-> [heap EXCEPT ![obj.board] = after.board,
                              ![obj.move_history] = after.move_history],
        obj |-> [after EXCEPT !.board = obj.board, !.move_history = obj.move_history]]

\* for move in legal_moves: board_copy = board.copy(); board_copy.make_move(move); ...
\* (the search below works on board_copy and copies of it).  The values the caller's
\* board has at the start of each turn of the loop and at its end
RECURSIVE branch_loop_seen(_, _, _, _)
branch_loop_seen(heap, board, legal_moves, i) ==
    IF i > Len(legal_moves) THEN <<SearchValue(heap, board)>>
    ELSE LET made(c) == search_make_move(c.heap, c.obj, legal_moves[i]).heap
         IN <<SearchValue(heap, board)>>
            \o branch_loop_seen(made(search_copy(heap, board)), board, legal_moves, i + 1)

\* engine.get_move(board) on object o: RandomEngine only lists the legal moves,
\* GreedyEngine and MinimaxEngine go on to the loop over them
get_move_seen(o, e) ==
    LET listed(b) ==
            IF e = "random" THEN <<b>>
            ELSE branch_loop_seen(<<b.board, b.move_history>>,
                                  [b EXCEPT !.board = 1, !.move_history = 2],
                                  generate_legal_moves(b), 1)
    IN listed(generate_legal_moves_board(Deref(o)))

(***************************************************************************)
(* Actions                                                                 *)
(***************************************************************************)
Other(o) == IF o = "board" THEN "c" ELSE "board"

\* The attributes of object o, or of a fresh board when o is not allocated
Snapshot(o) == IF objs[o].board = NullRef THEN MinichessBoard("4x4") ELSE Deref(o)

\* Mutant of make_move on an object: self.turn is not rebound
MakeMoveOn_turn_kept(o, move) ==
    LET b == Deref(o)
        after == make_move(b, move)
    IN /\ grids' = [grids EXCEPT ![objs[o].board] = after.board]
       /\ lists' = [lists EXCEPT ![objs[o].move_history] = after.move_history]
       /\ objs' = [objs EXCEPT ![o] = [after EXCEPT !.board = objs[o].board,
                                                    !.move_history = objs[o].move_history,
                                                    !.turn = b.turn]]

\* Mutant of make_move on an object: fullmove_number is advanced after White's move
MakeMoveOn_fullmove_after_white(o, move) ==
    LET b == Deref(o)
        after == make_move(b, move)
    IN /\ grids' = [grids EXCEPT ![objs[o].board] = after.board]
       /\ lists' = [lists EXCEPT ![objs[o].move_history] = after.move_history]
       /\ objs' = [objs EXCEPT ![o] = [after EXCEPT !.board = objs[o].board,
                                                    !.move_history = objs[o].move_history,
                                                    !.fullmove_number =
                                                        IF b.turn = WHITE
                                                        THEN b.fullmove_number + 1
                                                        ELSE b.fullmove_number]]

\* self.make_move(move) on object o: the grid cells and the history list are
\* changed in place, the scalar attributes are rebound
MakeMoveOn(o, move) ==
    LET b == Deref(o)
        after == make_move(b, move)
    IN /\ grids' = [grids EXCEPT ![objs[o].board] = after.board]
       /\ lists' = [lists EXCEPT ![objs[o].move_history] = after.move_history]
       /\ objs' = [objs EXCEPT ![o] = [after EXCEPT !.board = objs[o].board,
                                                    !.move_history = objs[o].move_history]]

\* engine.get_move(b): the [move, nodes_searched, seed] it can return
get_move(e, b) ==
    CASE e = "random" ->
           {[move |-> m, nodes_searched |-> engine.nodes_searched, seed |-> 0] :
               m \in RandomEngine_get_move(b)}
      [] e = "greedy" ->
           {[move |-> m, nodes_searched |-> engine.nodes_searched, seed |-> 0] :
               m \in GreedyEngine_get_move(b)}
      [] e = "minimax" ->
           {LET r == MinimaxEngine_get_move(engine, b, seed)
            IN [move |-> r.move, nodes_searched |-> r.nodes_searched, seed |-> seed] :
               seed \in Seeds}

\* One turn of a game loop on object o:
\* move = engine.get_move(board); if move: board.make_move(move)
PlayOn(o, e) ==
    /\ left > 0
    /\ UNCHANGED app
    /\ objs[o].board # NullRef
    /\ \E r \in get_move(e, Deref(o)) :
          /\ engine' = [engine EXCEPT !.nodes_searched = r.nodes_searched]
          /\ IF r.move = NoMove
             THEN /\ last' = [NoOp EXCEPT !.op = "get_move", !.obj = o, !.engine = e,
                                          !.move = r.move, !.seed = r.seed,
                                          !.before = Deref(o), !.other = Snapshot(Other(o)),
                                          !.seen = get_move_seen(o, e)]
                  /\ UNCHANGED <<objs, grids, lists, left>>
             ELSE /\ MakeMoveOn(o, r.move)
                  /\ left' = left - 1
                  /\ last' = [NoOp EXCEPT !.op = "play", !.obj = o, !.engine = e,
                                          !.move = r.move,
                                          !.ret = make_move_returns(Deref(o), r.move),
                                          !.seed = r.seed,
                                          !.before = Deref(o), !.other = Snapshot(Other(o)),
                                          !.seen = get_move_seen(o, e)]

Play(e) == PlayOn("board", e)

Next == Play("random") \/ Play("greedy")

Spec == Init /\ [][Next]_vars

(***************************************************************************)
(* The games the minimax engine takes part in                              *)
(***************************************************************************)
InitSearch == \E depth \in Depths : InitFresh(depth, SearchPlies) \/ InitSeed(depth, SearchPlies)

NextSearch == Play("random") \/ Play("greedy") \/ Play("minimax")

SpecSearch == InitSearch /\ [][NextSearch]_vars

\* The same games from a freshly constructed board only
InitFreshSearch == \E depth \in Depths : InitFresh(depth, SearchPlies)

SpecFreshSearch == InitFreshSearch /\ [][NextSearch]_vars

(***************************************************************************)
(* Games whose move lists are replayed: from a fresh board, and one more   *)
(* move after the first RecordedPlies plies of a recorded game             *)
(***************************************************************************)
InitReplay ==
    \/ InitFresh(4, ReplayPlies)
    \/ \E g \in DOMAIN Games :
          InitBoard(Replay(MinichessBoard("4x4"), Games[g], RecordedPlies), 4, 1)

SpecReplay == InitReplay /\ [][Next]_vars

\* Games of RandomEngine against itself in every variant, entered at points of the
\* variant's recorded game
InitVariants ==
    \E variant \in AllVariants, n \in VariantEntries :
        InitBoard(Replay(MinichessBoard(variant), VariantGame(variant), n), 4, VariantPlies)

NextVariants == Play("random")

SpecVariants == InitVariants /\ [][NextVariants]_vars

\* The game loop of minichess_cli and of minichess_bot_vs_bot with any engine:
\* while not board.is_game_over(): move = engine.get_move(board); board.make_move(move),
\* where get_move may return any legal move
GameLoop ==
    \E b \in {cur} :
        /\ ~is_game_over(b)
        /\ UNCHANGED <<app, left, engine>>
        /\ \E move \in RandomEngine_get_move(b) :
              /\ move # NoMove
              /\ MakeMoveOn("board", move)
              /\ last' = [NoOp EXCEPT !.op = "play", !.engine = "random", !.move = move,
                                      !.ret = make_move_returns(b, move),
                                      !.before = b, !.other = Snapshot("c")]

\* Games with the last plies still to play: a recorded game replayed up to a few
\* plies before its end
InitGame ==
    \E g \in DOMAIN EndGames :
        InitBoard(Replay(MinichessBoard("4x4"), EndGames[g], Len(EndGames[g]) - EndGameBack[g]),
                  4, 0)

NextGame == GameLoop

\* The loop runs on without waiting for anything: a turn that can be taken is taken
SpecGame == InitGame /\ [][NextGame]_vars /\ WF_vars(NextGame)

\* Games of MinimaxEngine against itself in every variant, entered at points of the
\* variant's recorded game
BestVariants == {"4x4", "4x5", "5x5"}

InitBest ==
    \E depth \in Depths, variant \in BestVariants, n \in BestEntries :
        InitBoard(Replay(MinichessBoard(variant), VariantGame(variant), n), depth, BestPlies)

NextBest == Play("minimax")

SpecBest == InitBest /\ [][NextBest]_vars

(***************************************************************************)
(* Searches: MinimaxEngine(depth).minimax(board, depth, -inf, inf, White   *)
(* to move) on an engine of its own, the call get_move makes for each root *)
(* move, from the positions of a game                                      *)
(***************************************************************************)
\* (a search from a state a search ended in finds the same results again, so searches
\* are run from the states the games reach)
Search(depth, seed) ==
    /\ left > 0
    /\ last.op # "minimax"
    /\ LET r == minimax(cur, depth, 0 - Inf, Inf, cur.turn = WHITE, seed)
       IN last' = [NoOp EXCEPT !.op = "minimax", !.engine = "minimax", !.seed = seed,
                               !.depth = depth, !.score = r.score, !.nodes = r.nodes,
                               !.before = cur, !.other = cur]
    /\ UNCHANGED <<objs, grids, lists, engine, left, app>>

InitAB == InitFresh(4, SearchPlies) \/ InitSeed(4, SearchPlies)

NextAB == Play("random") \/ \E depth \in Depths, seed \in Seeds : Search(depth, seed)

SpecAB == InitAB /\ [][NextAB]_vars

(***************************************************************************)
(* make_move called with a move the caller built                           *)
(***************************************************************************)
\* The Move objects a caller can build for the position: any piece on the board, to
\* any other square, `captured` filled in from the destination
CallerMoves(b) ==
    {Move(<<fr, fc>>, <<tr, tc>>, b.board[fr][fc], b.board[tr][tc]) :
        fr \in 0..(b.rows - 1), fc \in 0..(b.cols - 1),
        tr \in 0..(b.rows - 1), tc \in 0..(b.cols - 1)}

CallMakeMove ==
    /\ left > 0
    /\ \E move \in {m \in CallerMoves(cur) : m.piece # None /\ m.from_pos # m.to_pos} :
          /\ MakeMoveOn("board", move)
          /\ left' = left - 1
          /\ last' = [NoOp EXCEPT !.op = "make_move", !.move = move,
                                  !.ret = make_move_returns(cur, move),
                                  !.before = cur, !.other = cur]
          /\ UNCHANGED <<engine, app>>

InitApi == InitFresh(4, ApiCalls) \/ InitSeed(4, ApiCalls)

NextApi == Play("random") \/ CallMakeMove

SpecApi == InitApi /\ [][NextApi]_vars

(***************************************************************************)
(* c = board.copy(), and games on both boards                              *)
(***************************************************************************)
\* The references the copy holds: new_board.board is a list built by the
\* comprehension, new_board.move_history is the list self.move_history.copy() returns
\* Mutant of copy: new_board.board = self.board, the same list
copy_board_ref_shared(o) == objs[o].board

copy_board_ref(o) == 2

copy_history_ref(o) == 2

CopyBoard ==
    /\ LET nb == copy(cur)
           gref == copy_board_ref("board")
           lref == copy_history_ref("board")
       IN /\ grids' = [grids EXCEPT ![gref] = nb.board]
          /\ lists' = [lists EXCEPT ![lref] = nb.move_history]
          /\ objs' = [objs EXCEPT !["c"] = [nb EXCEPT !.board = gref,
                                                       !.move_history = lref]]
    /\ last' = [NoOp EXCEPT !.op = "copy", !.before = cur, !.other = Snapshot("c")]
    /\ UNCHANGED <<engine, left, app>>

InitCopy == InitFresh(4, CopyPlies)

NextCopy == PlayOn("board", "random") \/ PlayOn("c", "random") \/ CopyBoard

SpecCopy == InitCopy /\ [][NextCopy]_vars


(***************************************************************************)
(* The game programs.  Main.py, gui.py and bot_vs_bot.py play on a         *)
(* chess.Board of the python-chess library, which is kept here as its      *)
(* move_stack: a move is a number, the side to move is White after an even *)
(* number of moves, and the legal moves are a function of the stack that   *)
(* leaves one move out in every position and is empty once ChessGameLen    *)
(* moves were made.                                                        *)
(***************************************************************************)
ChessGameLen == 4

MaxChessMove == 3

ChessMoves == 1..MaxChessMove

\* board.turn
Board_turn(move_stack) == IF Len(move_stack) % 2 = 0 THEN WHITE ELSE BLACK

\* board.legal_moves
Board_legal_moves(move_stack) ==
    IF Len(move_stack) >= ChessGameLen THEN {}
    ELSE {mv \in ChessMoves : mv # (Len(move_stack) % MaxChessMove) + 1}

\* board.is_game_over()
Board_is_game_over(move_stack) == Board_legal_moves(move_stack) = {}

\* board.push(mv) and board.pop()
Board_push(move_stack, mv) == Append(move_stack, mv)

Board_pop(move_stack) == SubSeq(move_stack, 1, Len(move_stack) - 1)

\* next(iter(board.legal_moves), None)
first_legal_move(move_stack) ==
    IF Board_legal_moves(move_stack) = {} THEN ChessNone
    ELSE CHOOSE mv \in Board_legal_moves(move_stack) :
             \A other \in Board_legal_moves(move_stack) : mv <= other

\* update_move_history(board): the SAN of every move of the stack, each written
\* for the position it was made in
update_move_history(move_stack) ==
    [i \in DOMAIN move_stack |->
        [san |-> move_stack[i], turn |-> Board_turn(SubSeq(move_stack, 1, i - 1))]]

\* engine.get_move(board), the values it can return.  RandomEngine, GreedyEngine and
\* MinimaxEngine of ChessEngine.py return None without legal moves and one of the
\* legal moves otherwise; a BaseEngine subclass returns what it likes
ChessEngines == {"ChessEngine", "BaseEngine"}

engine_get_move(e, move_stack) ==
    IF e = "ChessEngine"
    THEN IF Board_legal_moves(move_stack) = {} THEN {ChessNone}
         ELSE Board_legal_moves(move_stack)
    ELSE {ChessNone} \cup ChessMoves

\* What a step leaves in ev: its name, what the engine returned, and the program's
\* state before it
Event(name, ret) ==
    [name |-> name, ret |-> ret, move_stack |-> app.move_stack,
     move_history |-> app.move_history, board |-> app.board, human |-> app.human,
     running |-> app.running, game_over |-> app.game_over,
     setup_mode |-> app.setup_mode, ai_thinking |-> app.ai_thinking, move |-> NoMove]

AppOnly == UNCHANGED <<objs, grids, lists, last, engine, left>>

(***************************************************************************)
(* Main.py: Main.startGame                                                 *)
(***************************************************************************)
\* Mutant of the undo branch: the stack is popped without looking at its length,
\* and the IndexError of an empty stack ends the session in the except clause
Main_undo_unguarded(a) ==
    IF Len(a.move_stack) = 0 THEN [a EXCEPT !.running = FALSE]
    ELSE [a EXCEPT !.move_stack = Board_pop(a.move_stack)]

\* if user_move.lower() == "undo": ... continue
Main_undo(a) ==
    IF Len(a.move_stack) = 0 THEN a
    ELSE [a EXCEPT !.move_stack = Board_pop(a.move_stack)]

\* The loop body on the human's turn: the program is at "Your move: "
MainPrompt ==
    /\ app.prog = "Main"
    /\ app.running
    /\ ~Board_is_game_over(app.move_stack)
    /\ Board_turn(app.move_stack) = app.human

\* "quit" is typed
MainQuit ==
    /\ MainPrompt
    /\ app' = [app EXCEPT !.running = FALSE,
                          !.undo = [pending |-> FALSE, move_stack |-> <<>>],
                          !.ev = Event("quit", ChessNone)]
    /\ AppOnly

\* "undo" is typed
MainUndo ==
    /\ MainPrompt
    /\ app' = [Main_undo(app) EXCEPT
                          !.undo = [pending |-> TRUE, move_stack |-> app.move_stack],
                          !.ev = Event("undo", ChessNone)]
    /\ AppOnly

\* A move is typed: one that is not legal is refused and the loop continues
MainMove(mv) ==
    /\ MainPrompt
    /\ app' = [app EXCEPT !.move_stack =
                              IF mv \in Board_legal_moves(app.move_stack)
                              THEN Board_push(app.move_stack, mv)
                              ELSE app.move_stack,
                          !.undo = [pending |-> FALSE, move_stack |-> <<>>],
                          !.ev = Event("move", ChessNone)]
    /\ AppOnly

\* The loop body on the engine's turn
Main_engine(a, mv) ==
    IF mv = ChessNone THEN [a EXCEPT !.running = FALSE]
    ELSE IF mv \notin Board_legal_moves(a.move_stack)
         THEN IF first_legal_move(a.move_stack) = ChessNone
              THEN [a EXCEPT !.running = FALSE]
              ELSE [a EXCEPT !.move_stack =
                                 Board_push(a.move_stack, first_legal_move(a.move_stack))]
         ELSE [a EXCEPT !.move_stack = Board_push(a.move_stack, mv)]

MainEngine ==
    /\ app.prog = "Main"
    /\ app.running
    /\ ~Board_is_game_over(app.move_stack)
    /\ Board_turn(app.move_stack) # app.human
    /\ \E mv \in engine_get_move(app.engine, app.move_stack) :
          app' = [Main_engine(app, mv) EXCEPT !.ev = Event("engine", mv)]
    /\ AppOnly

\* while not self.board.is_game_over(): ... else: print("Game over:", ...)
MainGameOver ==
    /\ app.prog = "Main"
    /\ app.running
    /\ Board_is_game_over(app.move_stack)
    /\ app' = [app EXCEPT !.running = FALSE, !.ev = Event("game over", ChessNone)]
    /\ AppOnly

(***************************************************************************)
(* gui.py: the main loop, one action per event and one for the auto-play   *)
(* section that follows the events of a frame                              *)
(***************************************************************************)
\* The second click of a move of the human player, from the selected square
GuiClick(mv) ==
    /\ app.prog = "gui"
    /\ app.running
    /\ Board_turn(app.move_stack) = app.human
    /\ app' = IF mv \in Board_legal_moves(app.move_stack)
              THEN [app EXCEPT !.move_stack = Board_push(app.move_stack, mv),
                               !.move_history =
                                   update_move_history(Board_push(app.move_stack, mv)),
                               !.ev = Event("move", ChessNone)]
              ELSE [app EXCEPT !.ev = Event("move", ChessNone)]
    /\ AppOnly

\* K_t
GuiToggle ==
    /\ app.prog = "gui"
    /\ app.running
    /\ app' = [app EXCEPT !.human = IF app.human = WHITE THEN BLACK ELSE WHITE,
                          !.ev = Event("toggle", ChessNone)]
    /\ AppOnly

\* Mutant of K_u: the first pop is made without looking at the stack, and the
\* IndexError of an empty stack ends the program
gui_undo_unguarded(a) ==
    IF Len(a.move_stack) = 0 THEN [a EXCEPT !.running = FALSE]
    ELSE LET once == Board_pop(a.move_stack)
             twice == IF Board_turn(once) # a.human /\ Len(once) > 0
                      THEN Board_pop(once) ELSE once
         IN [a EXCEPT !.move_stack = twice, !.move_history = update_move_history(twice)]

\* K_u
gui_undo(a) ==
    LET once == IF Len(a.move_stack) > 0 THEN Board_pop(a.move_stack) ELSE a.move_stack
        twice == IF Board_turn(once) # a.human /\ Len(once) > 0
                 THEN Board_pop(once) ELSE once
    IN [a EXCEPT !.move_stack = twice, !.move_history = update_move_history(twice)]

GuiUndo ==
    /\ app.prog = "gui"
    /\ app.running
    /\ app' = [gui_undo(app) EXCEPT !.ev = Event("undo", ChessNone)]
    /\ AppOnly

\* K_q and QUIT
GuiQuit ==
    /\ app.prog = "gui"
    /\ app.running
    /\ app' = [app EXCEPT !.running = FALSE, !.ev = Event("quit", ChessNone)]
    /\ AppOnly

\* if not board.is_game_over() and board.turn != human_side: ...
gui_auto_play(a, eng_move) ==
    IF eng_move # ChessNone /\ eng_move \in Board_legal_moves(a.move_stack)
    THEN [a EXCEPT !.move_stack = Board_push(a.move_stack, eng_move),
                   !.move_history = update_move_history(Board_push(a.move_stack, eng_move))]
    ELSE a

GuiAutoPlay ==
    /\ app.prog = "gui"
    /\ app.running
    /\ ~Board_is_game_over(app.move_stack)
    /\ Board_turn(app.move_stack) # app.human
    /\ \E eng_move \in engine_get_move(app.engine, app.move_stack) :
          app' = [gui_auto_play(app, eng_move) EXCEPT !.ev = Event("engine", eng_move)]
    /\ AppOnly

(***************************************************************************)
(* bot_vs_bot.py: main, one action per event and one for the game logic    *)
(* section of a frame whose delay has passed                               *)
(***************************************************************************)
\* The click on the start button
BotsStart ==
    /\ app.prog = "bot_vs_bot"
    /\ app.running
    /\ app.setup_mode
    /\ app' = [app EXCEPT !.setup_mode = FALSE, !.game_running = TRUE,
                          !.ev = Event("start", ChessNone)]
    /\ AppOnly

\* K_SPACE
BotsPause ==
    /\ app.prog = "bot_vs_bot"
    /\ app.running
    /\ ~app.setup_mode
    /\ app' = [app EXCEPT !.paused = ~app.paused, !.ev = Event("pause", ChessNone)]
    /\ AppOnly

\* K_r
BotsReset ==
    /\ app.prog = "bot_vs_bot"
    /\ app.running
    /\ app' = [app EXCEPT !.move_stack = <<>>, !.move_history = <<>>,
                          !.game_running = FALSE, !.game_over = FALSE,
                          !.setup_mode = TRUE, !.paused = FALSE,
                          !.ev = Event("reset", ChessNone)]
    /\ AppOnly

\* K_q and QUIT
BotsQuit ==
    /\ app.prog = "bot_vs_bot"
    /\ app.running
    /\ app' = [app EXCEPT !.running = FALSE, !.ev = Event("quit", ChessNone)]
    /\ AppOnly

\* move = engine.get_move(board); if move and move in board.legal_moves: ... else: ...
bots_game_logic(a, move) ==
    IF move # ChessNone /\ move \in Board_legal_moves(a.move_stack)
    THEN [a EXCEPT !.move_stack = Board_push(a.move_stack, move),
                   !.move_history = update_move_history(Board_push(a.move_stack, move))]
    ELSE [a EXCEPT !.game_over = TRUE]

BotsMove ==
    /\ app.prog = "bot_vs_bot"
    /\ app.running
    /\ ~app.setup_mode /\ app.game_running /\ ~app.paused /\ ~app.game_over
    /\ ~Board_is_game_over(app.move_stack)
    /\ \E move \in engine_get_move(app.engine, app.move_stack) :
          app' = [bots_game_logic(app, move) EXCEPT !.ev = Event("engine", move)]
    /\ AppOnly

BotsGameOver ==
    /\ app.prog = "bot_vs_bot"
    /\ app.running
    /\ ~app.setup_mode /\ app.game_running /\ ~app.paused /\ ~app.game_over
    /\ Board_is_game_over(app.move_stack)
    /\ app' = [app EXCEPT !.game_over = TRUE, !.game_running = FALSE,
                          !.ev = Event("game over", ChessNone)]
    /\ AppOnly

(***************************************************************************)
(* minichess_gui.py: main, one action per event and one for the AI move    *)
(* logic section of a frame.  board is a MinichessBoard, move_history the  *)
(* list of str(move) the program keeps next to it.                         *)
(***************************************************************************)
GuiPlies == 2

\* ENGINE_OPTIONS: Human vs Human ("-") or an engine
GuiEngines == {"-", "random", "greedy"}

\* The click on the start button, after the selector clicks that chose the variant,
\* the opponent and the colour
MgStart(variant, e, color) ==
    /\ app.prog = "minichess_gui"
    /\ app.running
    /\ app.setup_mode
    /\ app' = [app EXCEPT !.engine = e,
                          !.human = IF e = "-" THEN "-" ELSE color,
                          !.board = MinichessBoard(variant),
                          !.move_history = <<>>,
                          !.game_over = FALSE,
                          !.setup_mode = FALSE,
                          !.selected_square = NoSquare,
                          !.legal_moves_for_selected = <<>>,
                          !.ai_thinking = IF e # "-" /\ color = BLACK THEN TRUE
                                          ELSE app.ai_thinking,
                          !.ev = Event("start", ChessNone)]
    /\ AppOnly

\* board.make_move(move); move_history.append(str(move)); ... of the click on a
\* destination and of the AI move logic
mg_apply(a, move) ==
    LET after == make_move(a.board, move)
    IN [a EXCEPT !.board = after,
                 !.move_history = Append(a.move_history, Move__str__(move)),
                 !.game_over = IF is_game_over(after) THEN TRUE ELSE a.game_over]

\* The moves of legal_moves_for_selected whose to_pos is the clicked square, in the
\* order of the list
moves_to_square(a, clicked_square) ==
    SelectSeq(a.legal_moves_for_selected, LAMBDA m : m.to_pos = clicked_square)

\* The click on a destination of the selected piece: the first move of
\* legal_moves_for_selected that goes to the clicked square is made
MgClickMove ==
    /\ app.prog = "minichess_gui"
    /\ app.running
    /\ ~app.setup_mode /\ ~app.game_over /\ ~app.ai_thinking
    /\ Len(app.board.move_history) < GuiPlies
    /\ \E row \in 0..(app.board.rows - 1), col \in 0..(app.board.cols - 1) :
          /\ moves_to_square(app, <<row, col>>) # <<>>
          /\ \E move \in {moves_to_square(app, <<row, col>>)[1]} :
                app' = [mg_apply(app, move) EXCEPT
                           !.selected_square = NoSquare,
                           !.legal_moves_for_selected = <<>>,
                           !.ai_thinking = IF ~is_game_over(make_move(app.board, move))
                                              /\ app.engine # "-"
                                           THEN TRUE ELSE app.ai_thinking,
                           !.ev = [Event("move", ChessNone) EXCEPT !.move = move]]
    /\ AppOnly

\* The click on a square that is no destination of the selected piece: the piece on
\* it is selected if it may be, and the selection is dropped otherwise
MgSelect ==
    /\ app.prog = "minichess_gui"
    /\ app.running
    /\ ~app.setup_mode /\ ~app.game_over /\ ~app.ai_thinking
    /\ \E row \in 0..(app.board.rows - 1), col \in 0..(app.board.cols - 1) :
          LET clicked_square == <<row, col>>
              piece == app.board.board[row][col]
              can_select ==
                  IF app.engine = "-"
                  THEN piece # None /\ piece.color = app.board.turn
                  ELSE piece # None /\ piece.color = app.human
                                   /\ app.board.turn = app.human
          IN /\ moves_to_square(app, clicked_square) = <<>>
             /\ app' = [app EXCEPT
                           !.selected_square =
                               IF can_select THEN clicked_square ELSE NoSquare,
                           !.legal_moves_for_selected =
                               IF can_select
                               THEN SelectSeq(generate_legal_moves(app.board),
                                              LAMBDA m : m.from_pos = clicked_square)
                               ELSE <<>>,
                           !.ev = Event("select", ChessNone)]
    /\ AppOnly

\* Mutant of K_u: selected_square and legal_moves_for_selected are left as they are
mg_undo_selection_kept(a) ==
    IF ~a.setup_mode /\ ~a.game_over /\ Len(a.move_history) > 0
    THEN LET all_but_last == SubSeq(a.move_history, 1, Len(a.move_history) - 1)
             moves_to_replay ==
                 IF a.engine # "-" /\ Len(all_but_last) > 0
                 THEN SubSeq(all_but_last, 1, Len(all_but_last) - 1)
                 ELSE all_but_last
             replayed(r) == [a EXCEPT !.board = r.board, !.move_history = r.move_history]
         IN replayed(replay_loop(MinichessBoard(a.board.variant), <<>>, moves_to_replay, 1))
    ELSE a

\* K_u
mg_undo(a) ==
    IF ~a.setup_mode /\ ~a.game_over /\ Len(a.move_history) > 0
    THEN LET all_but_last == SubSeq(a.move_history, 1, Len(a.move_history) - 1)
             moves_to_replay ==
                 IF a.engine # "-" /\ Len(all_but_last) > 0
                 THEN SubSeq(all_but_last, 1, Len(all_but_last) - 1)
                 ELSE all_but_last
             replayed(r) == [a EXCEPT !.board = r.board, !.move_history = r.move_history,
                                      !.selected_square = NoSquare,
                                      !.legal_moves_for_selected = <<>>]
         IN replayed(replay_loop(MinichessBoard(a.board.variant), <<>>, moves_to_replay, 1))
    ELSE a

MgUndo ==
    /\ app.prog = "minichess_gui"
    /\ app.running
    /\ app' = [mg_undo(app) EXCEPT !.ev = Event("undo", ChessNone)]
    /\ AppOnly

\* K_r
MgReset ==
    /\ app.prog = "minichess_gui"
    /\ app.running
    /\ app' = [app EXCEPT !.board = NoBoard, !.move_history = <<>>,
                          !.selected_square = NoSquare,
                          !.legal_moves_for_selected = <<>>,
                          !.game_over = FALSE, !.setup_mode = TRUE,
                          !.ev = Event("reset", ChessNone)]
    /\ AppOnly

\* K_q and QUIT
MgQuit ==
    /\ app.prog = "minichess_gui"
    /\ app.running
    /\ app' = [app EXCEPT !.running = FALSE, !.ev = Event("quit", ChessNone)]
    /\ AppOnly

\* if not setup_mode and not game_over and ai_thinking: ...
\* ai_thinking is cleared by this section only, so it can be left set by a game
\* that was reset: with ai_engine = None the call raises AttributeError
MgAIMove ==
    /\ app.prog = "minichess_gui"
    /\ app.running
    /\ ~app.setup_mode /\ ~app.game_over /\ app.ai_thinking
    /\ Len(app.board.move_history) < GuiPlies
    /\ IF app.engine = "-"
       THEN app' = [app EXCEPT !.running = FALSE, !.ev = Event("error", ChessNone)]
       ELSE \E r \in get_move(app.engine, app.board) :
               app' = [(IF r.move # NoMove THEN mg_apply(app, r.move) ELSE app) EXCEPT
                          !.ai_thinking = FALSE,
                          !.ev = [Event("engine", ChessNone) EXCEPT !.move = r.move]]
    /\ AppOnly

(***************************************************************************)
(* The programs from their start                                           *)
(***************************************************************************)
\* Main.startGame after the engine and the side were chosen, gui.py with
\* human_side = chess.WHITE, bot_vs_bot.py and minichess_gui.py in setup mode
InitApps ==
    /\ objs = [o \in {"board", "c"} |-> NullObj]
    /\ grids = [r \in 1..2 |-> <<>>]
    /\ lists = [r \in 1..2 |-> <<>>]
    /\ engine = [depth |-> 4, nodes_searched |-> 0]
    /\ left = 0
    /\ last = NoOp
    /\ \/ \E e \in ChessEngines, side \in {WHITE, BLACK} :
             app = [NoApp EXCEPT !.prog = "Main", !.engine = e, !.human = side,
                                 !.running = TRUE]
       \/ \E e \in ChessEngines :
             app = [NoApp EXCEPT !.prog = "gui", !.engine = e, !.human = WHITE,
                                 !.running = TRUE]
       \/ \E e \in ChessEngines :
             app = [NoApp EXCEPT !.prog = "bot_vs_bot", !.engine = e,
                                 !.running = TRUE, !.setup_mode = TRUE]
       \/ app = [NoApp EXCEPT !.prog = "minichess_gui", !.running = TRUE,
                              !.setup_mode = TRUE]

NextApps ==
    \/ MainQuit
    \/ MainUndo
    \/ \E mv \in ChessMoves : MainMove(mv)
    \/ MainEngine
    \/ MainGameOver
    \/ \E mv \in ChessMoves : GuiClick(mv)
    \/ GuiToggle
    \/ GuiUndo
    \/ GuiQuit
    \/ GuiAutoPlay
    \/ BotsStart
    \/ BotsPause
    \/ BotsReset
    \/ BotsQuit
    \/ BotsMove
    \/ BotsGameOver
    \/ \E variant \in Variants, e \in GuiEngines, color \in {WHITE, BLACK} :
          MgStart(variant, e, color)
    \/ MgClickMove
    \/ MgSelect
    \/ MgUndo
    \/ MgReset
    \/ MgQuit
    \/ MgAIMove

SpecApps == InitApps /\ [][NextApps]_vars

(***************************************************************************)
(* Properties                                                              *)
(***************************************************************************)
\* The position has no legal move / the side to move is in check, from the
\* generator and the attack scan directly
NoLegalMoves(b) == generate_legal_moves(b) = <<>>

InCheck(b) == is_in_check(b, b.turn)

\* C1: after make_move(m), for m in generate_legal_moves() of a position reached by
\* legal moves, the colour that just moved is not in check.
C1_MoverNotInCheck ==
    (last.op = "play" /\ last.move \in Range(generate_legal_moves(last.before)))
        => ~is_in_check(Deref(last.obj), last.before.turn)

\* C1 witness: a legal move was applied in a position where the filter had removed a
\* pseudo-legal move, by a side that was in check
C1_Witness ==
    /\ last.op = "play"
    /\ is_in_check(last.before, last.before.turn)
    /\ Len(generate_legal_moves(last.before)) < Len(PseudoMoves(last.before, last.before.turn))
    /\ ~is_in_check(cur, last.before.turn)

\* The minimax value of the position at the given depth with no cut-off: every legal
\* move is searched
RECURSIVE PlainMinimax(_, _, _, _)
PlainMinimax(b, depth, maximizing, seed) ==
    IF depth = 0 \/ is_game_over(b) THEN evaluate_position(b, seed)
    ELSE LET vals == {PlainMinimax(make_move(copy(b), m), depth - 1, ~maximizing, seed) :
                         m \in Range(generate_legal_moves(b))}
         IN IF maximizing THEN CHOOSE v \in vals : \A w \in vals : w <= v
            ELSE CHOOSE v \in vals : \A w \in vals : v <= w

\* C2: minimax called with the full window returns the value of plain minimax (no
\* cut-off) of the same depth and position, for White (maximizing) and Black
\* (minimizing) to move, under every assignment of the evaluator's draws.
C2_AlphaBetaEqualsMinimax ==
    last.op = "minimax"
        => last.score = PlainMinimax(last.before, last.depth,
                                     last.before.turn = WHITE, last.seed)

\* C2 witness: a depth-2 search that cut a branch off (it visited fewer nodes than
\* the position has within two plies) and returned a value
CountNodes(b, depth) ==
    LET RECURSIVE Count(_, _)
        Count(p, d) ==
            IF d = 0 \/ is_game_over(p) THEN 1
            ELSE 1 + SumSeq([i \in DOMAIN generate_legal_moves(p) |->
                        Count(make_move(copy(p), generate_legal_moves(p)[i]), d - 1)])
    IN Count(b, depth)

C2_Witness ==
    /\ last.op = "minimax"
    /\ last.depth = 2
    /\ last.before.turn = BLACK
    /\ last.nodes < CountNodes(last.before, last.depth)

\* C3: get_move of RandomEngine, GreedyEngine and MinimaxEngine returns None iff the
\* position has no legal move, and any move it returns is a legal move of the position.
C3_GetMoveLegal ==
    last.op \in {"play", "get_move"}
        => /\ (last.move = NoMove) <=> (generate_legal_moves(last.before) = <<>>)
           /\ last.move # NoMove => last.move \in Range(generate_legal_moves(last.before))

\* C3 witness: MinimaxEngine.get_move returned None in a position without legal moves
C3_Witness ==
    /\ last.op = "get_move"
    /\ last.engine = "minimax"
    /\ last.move = NoMove
    /\ generate_legal_moves(cur) = <<>>

\* C4: make_move rejects (returns False) any move absent from generate_legal_moves(),
\* and on rejection grid, turn, halfmove_clock, fullmove_number and move_history are
\* unchanged.
C4_MakeMoveRejectsIllegal ==
    (last.op = "make_move" /\ last.move \notin Range(generate_legal_moves(last.before)))
        => (last.ret = FALSE /\ cur = last.before)

\* C5: after make_move(m), halfmove_clock is 0 iff the destination was occupied or the
\* moved piece is a pawn; otherwise it is the value before plus 1.
C5_HalfmoveClock ==
    last.op = "play"
        => LET b == last.before
               m == last.move
               reset == \/ b.board[m.to_pos[1]][m.to_pos[2]] # None
                        \/ b.board[m.from_pos[1]][m.from_pos[2]].type = PAWN
           IN /\ (cur.halfmove_clock = 0) <=> reset
              /\ ~reset => cur.halfmove_clock = b.halfmove_clock + 1

\* C5 witness: a move of a piece to an empty square took the clock from 49 to 50
C5_Witness ==
    /\ last.op = "play"
    /\ last.move.piece.type # PAWN
    /\ last.before.board[last.move.to_pos[1]][last.move.to_pos[2]] = None
    /\ last.before.halfmove_clock = 49
    /\ cur.halfmove_clock = 50

\* C6: after c = board.copy(), make_move calls on c leave the original's grid, turn,
\* move_history, fullmove_number and halfmove_clock unchanged, and make_move calls on
\* the original leave c unchanged.
C6_CopyIndependent ==
    (last.op = "play" /\ objs["c"].board # NullRef)
        => Deref(Other(last.obj)) = last.other

\* C6 witness: a move was made on the copy, and the copy and the original differ
C6_Witness ==
    /\ last.op = "play"
    /\ last.obj = "c"
    /\ Deref("c").board # Deref("board").board
    /\ Len(Deref("board").move_history) > 0

\* C7: is_checkmate() iff the side to move is in check and has no legal move.
C7_Checkmate == is_checkmate(cur) <=> (InCheck(cur) /\ NoLegalMoves(cur))

\* C7 witness: a checkmate
C7_Witness == is_checkmate(cur) /\ InCheck(cur) /\ NoLegalMoves(cur)

\* C8: is_stalemate() iff the side to move is not in check and has no legal move;
\* is_checkmate() and is_stalemate() are never both true.
C8_Stalemate ==
    /\ is_stalemate(cur) <=> (~InCheck(cur) /\ NoLegalMoves(cur))
    /\ ~(is_checkmate(cur) /\ is_stalemate(cur))

\* C8 witness: a stalemate
C8_Witness == is_stalemate(cur) /\ ~InCheck(cur) /\ NoLegalMoves(cur)

\* C9: get_result() is "1-0" exactly when Black is to move and checkmated, "0-1"
\* exactly when White is, "1/2-1/2" when the position is not checkmate and is
\* stalemate or has halfmove_clock >= 50, and "*" otherwise; a checkmate is a win
\* even with halfmove_clock >= 50.
C9_Result ==
    LET mate == InCheck(cur) /\ NoLegalMoves(cur)
        stale == ~InCheck(cur) /\ NoLegalMoves(cur)
        drawn == ~mate /\ (stale \/ cur.halfmove_clock >= 50)
    IN \A result \in {get_result(cur)} :
          /\ (result = "1-0") <=> (cur.turn = BLACK /\ mate)
          /\ (result = "0-1") <=> (cur.turn = WHITE /\ mate)
          /\ drawn => result = "1/2-1/2"
          /\ (~mate /\ ~drawn) => result = "*"

\* C9 witness: White is checkmated with halfmove_clock at 50, and the result is 0-1
C9_Witness ==
    /\ cur.turn = WHITE
    /\ InCheck(cur) /\ NoLegalMoves(cur)
    /\ cur.halfmove_clock >= 50
    /\ get_result(cur) = "0-1"

\* C10: is_game_over() iff checkmate or stalemate or halfmove_clock >= 50; with
\* halfmove_clock >= 50 and the side to move not in check, is_game_over() holds and
\* get_result() is "1/2-1/2"; is_game_over() holds exactly when get_result() is not "*".
C10_GameOver ==
    \A over \in {is_game_over(cur)}, result \in {get_result(cur)} :
        /\ over <=> \/ (InCheck(cur) /\ NoLegalMoves(cur))
                    \/ (~InCheck(cur) /\ NoLegalMoves(cur))
                    \/ cur.halfmove_clock >= 50
        /\ (cur.halfmove_clock >= 50 /\ ~InCheck(cur))
              => (over /\ result = "1/2-1/2")
        /\ over <=> (result # "*")

\* C10 witness: the clock is at 50, the side to move has legal moves and is not in
\* check, and the game is over and drawn
C10_Witness ==
    /\ cur.halfmove_clock = 50
    /\ ~InCheck(cur)
    /\ ~NoLegalMoves(cur)
    /\ is_game_over(cur)
    /\ get_result(cur) = "1/2-1/2"

\* The number of make_move calls made on the object "board" since it was constructed:
\* the plies of the recorded game it was started with and the plies played since
AppliedMoves(budget) ==
    {budget - left} \cup {Len(Games[g]) + 1 - left : g \in DOMAIN Games}

\* C11: after n make_move calls on a fresh board, turn is WHITE if n is even and BLACK
\* if n is odd, each call hands the turn to the other colour, and the piece a legal
\* move moved belongs to the colour whose turn it was.
C11_TurnAlternates ==
    /\ \E n \in AppliedMoves(MaxPlies) :
          /\ n = Len(cur.move_history)
          /\ cur.turn = IF n % 2 = 0 THEN WHITE ELSE BLACK
    /\ last.op = "play"
          => /\ cur.turn # last.before.turn
             /\ last.move.piece.color = last.before.turn
             /\ last.before.board[last.move.from_pos[1]][last.move.from_pos[2]].color
                    = last.before.turn

\* C11 witness: Black has just moved a black piece on the second ply of a game from a
\* fresh board, and it is White's turn again
C11_Witness ==
    /\ last.op = "play"
    /\ Len(cur.move_history) = 2
    /\ last.before.turn = BLACK
    /\ last.move.piece.color = BLACK
    /\ cur.turn = WHITE

\* C12: after n make_move calls on a fresh board, move_history holds the n moves in
\* the order they were applied and fullmove_number = 1 + floor(n / 2), one more for
\* each move Black made.
C12_HistoryAndFullmove ==
    /\ \E n \in AppliedMoves(MaxPlies) :
          /\ Len(cur.move_history) = n
          /\ cur.fullmove_number = 1 + (n \div 2)
    /\ last.op = "play"
          => /\ cur.move_history = Append(last.before.move_history, last.move)
             /\ cur.fullmove_number =
                    last.before.fullmove_number + (IF last.before.turn = BLACK THEN 1 ELSE 0)

\* C12 witness: the third move of a game from a fresh board was appended after the
\* two before it, and the one move Black made took fullmove_number to 2
C12_Witness ==
    /\ last.op = "play"
    /\ Len(cur.move_history) = 3
    /\ cur.move_history[3] = last.move
    /\ cur.fullmove_number = 2

\* C13 as stated: on a freshly constructed 4x4 board (White to move) no legal move is
\* a capture, and MinimaxEngine(depth=1).get_move returns a move of the legal list.
C13_NoCaptureOnFresh4x4 ==
    /\ cur = MinichessBoard("4x4")
          => \A m \in Range(generate_legal_moves(cur)) : m.captured = None
    /\ (last.op \in {"play", "get_move"} /\ last.engine = "minimax" /\ engine.depth = 1
            /\ last.before = MinichessBoard("4x4"))
          => (last.move # NoMove /\ last.move \in Range(generate_legal_moves(last.before)))

\* C13 amended: on a freshly constructed 4x4 board (White to move) the legal moves are
\* six, each a white pawn capturing a black pawn, and MinimaxEngine(depth=1).get_move
\* returns a move of the legal list.
C13_Fresh4x4AllCaptures ==
    /\ cur = MinichessBoard("4x4")
          => /\ Len(generate_legal_moves(cur)) = 6
             /\ \A m \in Range(generate_legal_moves(cur)) :
                    /\ m.piece = Piece(PAWN, WHITE)
                    /\ m.captured = Piece(PAWN, BLACK)
                    /\ cur.board[m.to_pos[1]][m.to_pos[2]] = Piece(PAWN, BLACK)
    /\ (last.op \in {"play", "get_move"} /\ last.engine = "minimax" /\ engine.depth = 1
            /\ last.before = MinichessBoard("4x4"))
          => (last.move # NoMove /\ last.move \in Range(generate_legal_moves(last.before)))

\* C13 witness: MinimaxEngine(depth=1) moved first on a fresh 4x4 board, and the move
\* it returned was a capture
C13_Witness ==
    /\ last.op = "play"
    /\ last.engine = "minimax"
    /\ engine.depth = 1
    /\ last.before = MinichessBoard("4x4")
    /\ last.move.captured # None
    /\ cur.board[last.move.to_pos[1]][last.move.to_pos[2]] = Piece(PAWN, WHITE)

\* The value Greedy is to give a move: the listed value of the piece standing on the
\* destination, 0.15 for a destination among the centre squares, and for a pawn 0.1
\* for each rank between its own back rank and the destination
CapturedValue(b, m) ==
    LET target == b.board[m.to_pos[1]][m.to_pos[2]]
    IN CASE target = None -> 0
         [] target.type = PAWN -> 1000
         [] target.type = KNIGHT -> 3000
         [] target.type = BISHOP -> 3100
         [] target.type = ROOK -> 5000
         [] target.type = QUEEN -> 9000
         [] target.type = KING -> 0

PositionalBonus(b, m) ==
    LET centre == IF b.rows = 4 THEN {1, 2} \X {1, 2} ELSE {2} \X {1, 2}
        ranks == IF b.turn = WHITE THEN m.to_pos[1] ELSE (b.rows - 1) - m.to_pos[1]
    IN (IF m.to_pos \in centre THEN 150 ELSE 0)
       + (IF b.board[m.from_pos[1]][m.from_pos[2]].type = PAWN THEN 100 * ranks ELSE 0)

\* C14: for either colour to move and every legal move m, evaluate_move_delta(board, m)
\* is the value of the piece m captures (0 for none, 5 for a rook), counted as a gain
\* of the mover, plus the positional bonuses only; and GreedyEngine.get_move returns a
\* legal move whose delta no legal move exceeds.
C14_GreedyDelta ==
    /\ \A m \in Range(generate_legal_moves(cur)) :
          evaluate_move_delta(cur, m) = CapturedValue(cur, m) + PositionalBonus(cur, m)
    /\ (last.op = "play" /\ last.engine = "greedy")
          => /\ last.move \in Range(generate_legal_moves(last.before))
             /\ \A m \in Range(generate_legal_moves(last.before)) :
                    evaluate_move_delta(last.before, m)
                        <= evaluate_move_delta(last.before, last.move)

\* C14 witness: Greedy took a rook, a move of delta 5 plus its positional bonus, in a
\* position where a move that captures nothing was also legal
C14_Witness ==
    /\ last.op = "play"
    /\ last.engine = "greedy"
    /\ last.move.captured # None
    /\ last.move.captured.type = ROOK
    /\ evaluate_move_delta(last.before, last.move) = 5000 + PositionalBonus(last.before, last.move)
    /\ \E m \in Range(generate_legal_moves(last.before)) : m.captured = None

\* The strings the GUI keeps for the moves of a history: str(move) of each, in order
Strings(moves) == [i \in DOMAIN moves |-> Move__str__(moves[i])]

\* The board after make_move was called with moves[i], moves[i + 1], ... in order
RECURSIVE ApplyAll(_, _, _)
ApplyAll(b, moves, i) ==
    IF i > Len(moves) \/ b.rows = 0 THEN b
    ELSE ApplyAll(make_move(b, moves[i]), moves, i + 1)

\* At every step of the replay of strs from b, entered at the i-th string, exactly one
\* legal move of the position has the string
RECURSIVE OneMatchEach(_, _, _)
OneMatchEach(b, strs, i) ==
    IF i > Len(strs) THEN TRUE
    ELSE LET legal == generate_legal_moves(b)
             matching == {k \in DOMAIN legal : Move__str__(legal[k]) = strs[i]}
         IN /\ Cardinality(matching) = 1
            /\ OneMatchEach(make_move(b, legal[CHOOSE k \in matching : TRUE]), strs, i + 1)

\* C15: for a board reached from a fresh MinichessBoard(variant) by legal moves, a new
\* MinichessBoard(variant) with the recorded moves applied in order has the same grid,
\* turn, halfmove_clock, fullmove_number and history; and the replay by strings (as
\* the GUI's undo does it) finds exactly one legal move for each string, arrives at
\* the position before the last move when the last string is left out, and at the
\* position itself when the loop goes on to the last string.
C15_ReplayRoundTrip ==
    LET fresh == MinichessBoard(cur.variant)
        n == Len(cur.move_history)
        strs == Strings(cur.move_history)
        prev == replay_loop(fresh, <<>>, SubSeq(strs, 1, n - 1), 1)
    IN /\ ApplyAll(fresh, cur.move_history, 1) = cur
       /\ OneMatchEach(fresh, strs, 1)
       /\ n = 0 => replay_loop(fresh, <<>>, strs, 1) = [board |-> cur, move_history |-> strs]
       /\ n > 0 =>
             /\ last.op = "play"
                   => prev = [board |-> last.before,
                              move_history |-> Strings(last.before.move_history)]
             /\ replay_loop(prev.board, prev.move_history, strs, n)
                    = [board |-> cur, move_history |-> strs]

\* C15 witness: a game of more than RecordedPlies moves, captures and quiet moves
\* among them, has just had a move added, and the replay of its strings is at the
\* position again
C15_Witness ==
    /\ last.op = "play"
    /\ Len(cur.move_history) > RecordedPlies
    /\ \E i, j \in DOMAIN cur.move_history :
          cur.move_history[i].captured # None /\ cur.move_history[j].captured = None
    /\ replay_loop(MinichessBoard(cur.variant), <<>>, Strings(cur.move_history), 1).board = cur

\* C19: evaluate_position returns exactly -9999 when White is to move and checkmated,
\* exactly +9999 when Black is to move and checkmated, and exactly 0 in a stalemate or
\* at halfmove_clock >= 50 without checkmate, whatever the random draw; the draw is
\* added to the value of the other positions only.
C19_TerminalEvaluation ==
    LET mate == InCheck(cur) /\ NoLegalMoves(cur)
        draw == ~mate /\ ((~InCheck(cur) /\ NoLegalMoves(cur)) \/ cur.halfmove_clock >= 50)
    IN \A without_draw \in {evaluate_position(cur, 0)} :
          \A seed \in Seeds :
             \A value \in {evaluate_position(cur, seed)} :
                /\ (mate /\ cur.turn = WHITE) => value = -9999000
                /\ (mate /\ cur.turn = BLACK) => value = 9999000
                /\ draw => value = 0
                /\ ~(mate \/ draw) => value - without_draw = uniform(cur, seed)

\* C19 witness: White is to move and checkmated, with the clock at 50 or more, the
\* draw for the position is not 0, and its value is -9999
C19_Witness ==
    /\ InCheck(cur) /\ NoLegalMoves(cur)
    /\ cur.turn = WHITE
    /\ cur.halfmove_clock >= 50
    /\ \E seed \in Seeds : uniform(cur, seed) # 0 /\ evaluate_position(cur, seed) = -9999000

\* C18: when get_move of RandomEngine, GreedyEngine or MinimaxEngine returns, the
\* caller's board has the grid, turn, halfmove_clock, fullmove_number and move_history
\* it had before the call, and it has them at the start of every branch of the loop
\* over the legal moves: no branch sees what an earlier branch did to its copy.
C18_GetMoveSnapshot ==
    last.op \in {"play", "get_move"}
        => /\ last.seen # <<>>
           /\ \A i \in DOMAIN last.seen : last.seen[i] = last.before

\* C18 witness: MinimaxEngine.get_move returned a move after a loop of three branches
\* or more, in a position where the filter had tried a capture on the caller's grid
C18_Witness ==
    /\ last.op = "play"
    /\ last.engine = "minimax"
    /\ Len(last.seen) > 3
    /\ \E m \in Range(PseudoMoves(last.before, last.before.turn)) : m.captured # None
    /\ last.seen[Len(last.seen)] = last.before

\* C16: in Main.startGame, gui.py and bot_vs_bot.py, when engine.get_move returns a
\* move that is not a legal move while legal moves exist, the program pushes some
\* legal move instead, and the game goes on: it is neither over nor left as it was.
C16_IllegalMoveSubstituted ==
    (/\ app.ev.name = "engine"
     /\ app.prog \in {"Main", "gui", "bot_vs_bot"}
     /\ app.ev.ret # ChessNone
     /\ Board_legal_moves(app.ev.move_stack) # {}
     /\ app.ev.ret \notin Board_legal_moves(app.ev.move_stack))
        => /\ \E mv \in Board_legal_moves(app.ev.move_stack) :
                 app.move_stack = Board_push(app.ev.move_stack, mv)
           /\ app.running
           /\ ~app.game_over

\* C17: undo asked for when no move was made changes nothing in Main.startGame,
\* gui.py and minichess_gui.py: the board, the side to move, the move history and
\* the flags are those from before, and the program is still running.
C17_UndoWithoutMoves ==
    (/\ app.ev.name = "undo"
     /\ app.ev.move_stack = <<>>
     /\ app.ev.move_history = <<>>
     /\ (app.ev.board = NoBoard \/ app.ev.board.move_history = <<>>))
        => /\ app.move_stack = <<>>
           /\ app.move_history = <<>>
           /\ app.board = app.ev.board
           /\ app.human = app.ev.human
           /\ app.game_over = app.ev.game_over
           /\ app.setup_mode = app.ev.setup_mode
           /\ app.ai_thinking = app.ev.ai_thinking
           /\ app.running

\* C17 witness: in a started minichess_gui.py game against an engine, U was pressed
\* on the fresh board
C17_Witness ==
    /\ app.prog = "minichess_gui"
    /\ app.ev.name = "undo"
    /\ ~app.ev.setup_mode
    /\ app.engine # "-"
    /\ app.ev.move_history = <<>>
    /\ app.ev.board = MinichessBoard(app.ev.board.variant)
    /\ app.board = app.ev.board

\* C20: in Main.startGame, after "undo" was typed with both sides having moved, the
\* next time the program asks for the human's move the stack is the one of the undo
\* without its last two moves: the human's last move is retracted with the reply.
C20_UndoRetractsHumanMove ==
    (/\ MainPrompt
     /\ app.undo.pending
     /\ Len(app.undo.move_stack) >= 2)
        => app.move_stack = SubSeq(app.undo.move_stack, 1, Len(app.undo.move_stack) - 2)

\* The squares of the board, and the pieces of a kind on it
Squares(b) == (0..(b.rows - 1)) \X (0..(b.cols - 1))

At(b, sq) == b.board[sq[1]][sq[2]]

\* The directions a sliding piece moves in: 4 orthogonal for the rook, 4 diagonal for
\* the bishop, all 8 for the queen
RayDirections(type) ==
    LET orthogonal == {<<0, 1>>, <<0, -1>>, <<1, 0>>, <<-1, 0>>}
        diagonal == {<<1, 1>>, <<1, -1>>, <<-1, 1>>, <<-1, -1>>}
    IN CASE type = ROOK -> orthogonal
         [] type = BISHOP -> diagonal
         [] type = QUEEN -> orthogonal \cup diagonal

\* The squares a sliding piece on `from` reaches: on a ray, every square strictly
\* between empty, and itself empty or held by the other colour
RaySquares(b, from) ==
    {to \in Squares(b) :
        \E d \in RayDirections(At(b, from).type), n \in 1..(b.rows + b.cols) :
            /\ to = <<from[1] + n * d[1], from[2] + n * d[2]>>
            /\ \A k \in 1..(n - 1) : At(b, <<from[1] + k * d[1], from[2] + k * d[2]>>) = None
            /\ (At(b, to) = None \/ At(b, to).color # At(b, from).color)}

\* C21: for every rook, bishop and queen on the board of a reachable position of any
\* variant, the moves generated for it go to exactly the squares its rays reach up
\* to and including the first enemy piece, each square once, and a move carries the
\* piece of its destination as captured (None for an empty square).
C21_SlidingMoves ==
    \A from \in {sq \in Squares(cur) : At(cur, sq).type \in {ROOK, BISHOP, QUEEN}} :
        LET moves == _generate_piece_moves(cur, from[1], from[2], At(cur, from))
        IN /\ {m.to_pos : m \in Range(moves)} = RaySquares(cur, from)
           /\ Len(moves) = Cardinality(RaySquares(cur, from))
           /\ \A m \in Range(moves) :
                 /\ m.from_pos = from
                 /\ m.piece = At(cur, from)
                 /\ m.captured = At(cur, m.to_pos)

\* C21 witness: on the 8-row board a rook, bishop or queen has a ray of four squares
\* or more, and one that ends on an enemy piece
C21_Witness ==
    /\ cur.rows = 8
    /\ last.op = "play"
    /\ \E from \in {sq \in Squares(cur) : At(cur, sq).type \in {ROOK, BISHOP, QUEEN}} :
          /\ \E to \in RaySquares(cur, from) :
                to[1] - from[1] >= 4 \/ from[1] - to[1] >= 4
          /\ \E to \in RaySquares(cur, from) : At(cur, to) # None

\* The squares a pawn on `from` moves to: one square forward if it is on the board and
\* empty; two squares forward if the variant has double moves, the pawn stands on the
\* row its colour's pawns are set up on, and both squares are empty; a diagonal-forward
\* square if it holds a piece of the other colour
PawnSquares(b, from) ==
    LET forward == IF At(b, from).color = WHITE THEN 1 ELSE -1
        home == IF At(b, from).color = WHITE THEN 1 ELSE BlackPawnRow(b.variant)
        one == <<from[1] + forward, from[2]>>
        two == <<from[1] + 2 * forward, from[2]>>
    IN {to \in Squares(b) :
           \/ to = one /\ At(b, to) = None
           \/ /\ to = two
              /\ b.variant \in {"4x5", "5x5", "5x6"}
              /\ from[1] = home
              /\ At(b, one) = None
              /\ At(b, to) = None
           \/ /\ to[1] = one[1]
              /\ to[2] \in {from[2] - 1, from[2] + 1}
              /\ At(b, to) # None
              /\ At(b, to).color # At(b, from).color}

\* The row a pawn of a colour cannot move on from
FarthestRank(b, color) == IF color = WHITE THEN b.rows - 1 ELSE 0

\* C22: for every pawn on the board of a reachable position of any variant, the moves
\* generated for it go to exactly the squares above, each once; a pawn on the farthest
\* rank has no move; and a pawn that was moved is a pawn on its new square.
C22_PawnMoves ==
    /\ \A from \in {sq \in Squares(cur) : At(cur, sq).type = PAWN} :
          LET moves == _generate_piece_moves(cur, from[1], from[2], At(cur, from))
          IN /\ {m.to_pos : m \in Range(moves)} = PawnSquares(cur, from)
             /\ Len(moves) = Cardinality(PawnSquares(cur, from))
             /\ \A m \in Range(moves) :
                   /\ m.from_pos = from
                   /\ m.captured = At(cur, m.to_pos)
                   /\ m.to_pos[2] = from[2] <=> m.captured = None
             /\ from[1] = FarthestRank(cur, At(cur, from).color) => moves = <<>>
    /\ (last.op = "play" /\ last.move.piece.type = PAWN)
          => At(cur, last.move.to_pos) = last.move.piece

\* C22 witness: a pawn was moved onto its farthest rank, where it has no move, in a
\* position in which another pawn is blocked by a piece in front of it
C22_Witness ==
    /\ last.op = "play"
    /\ last.move.piece.type = PAWN
    /\ last.move.to_pos[1] = FarthestRank(cur, last.move.piece.color)
    /\ _generate_piece_moves(cur, last.move.to_pos[1], last.move.to_pos[2],
                             last.move.piece) = <<>>
    /\ \E from \in {sq \in Squares(cur) : At(cur, sq).type = PAWN} :
          /\ from[1] # FarthestRank(cur, At(cur, from).color)
          /\ At(cur, <<from[1] + (IF At(cur, from).color = WHITE THEN 1 ELSE -1),
                       from[2]>>) # None

\* Whether a move puts the other side's king in check
GivesCheck(b, m) ==
    is_in_check(make_move(b, m), IF b.turn = WHITE THEN BLACK ELSE WHITE)

\* The three groups of the ordering: captures, checks that capture nothing, the rest
OrderGroup(b, m) == IF m.captured # None THEN 0 ELSE IF GivesCheck(b, m) THEN 1 ELSE 2

\* A sequence holds every element of another as many times as the other does
IsPermutation(s, t) ==
    /\ Len(s) = Len(t)
    /\ \A x \in Range(s) \cup Range(t) :
          Cardinality({i \in DOMAIN s : s[i] = x}) = Cardinality({i \in DOMAIN t : t[i] = x})

\* C23: order_moves applied to the legal moves of a position returns a permutation of
\* them in which the captures come first, a capture of a more valuable piece before
\* one of a less valuable piece, then the checks that capture nothing, then the rest.
C23_OrderMovesByCaptureValue ==
    LET moves == generate_legal_moves(cur)
        ordered == order_moves(cur, moves)
    IN /\ IsPermutation(ordered, moves)
       /\ \A i, j \in DOMAIN ordered :
             i < j =>
                /\ OrderGroup(cur, ordered[i]) <= OrderGroup(cur, ordered[j])
                /\ (ordered[i].captured # None /\ ordered[j].captured # None)
                      => PIECE_VALUES(ordered[i].captured.type)
                            >= PIECE_VALUES(ordered[j].captured.type)

\* The value of the subtree under a root move: plain minimax of depth D - 1 of the
\* position after it, with the other side to move
SubtreeValue(b, m, depth, seed) ==
    PlainMinimax(make_move(b, m), depth - 1, b.turn # WHITE, seed)

\* The index of the first entry of a list of values that is the largest (White to
\* move) or the smallest (Black to move)
FirstBestOf(value, white) ==
    LET best(i) == \A j \in DOMAIN value :
                       IF white THEN value[j] <= value[i] ELSE value[i] <= value[j]
    IN CHOOSE i \in DOMAIN value : best(i) /\ \A j \in 1..(i - 1) : ~best(j)

\* The subtree values of a list of root moves
SubtreeValues(b, moves, depth, seed) ==
    [i \in DOMAIN moves |-> SubtreeValue(b, moves[i], depth, seed)]

FirstBest(b, moves, depth, seed) ==
    FirstBestOf(SubtreeValues(b, moves, depth, seed), b.turn = WHITE)

\* C24: under a fixed assignment of the evaluator's draws, the move MinimaxEngine of
\* depth D plays is the first move, in generate_legal_moves() order, whose depth D - 1
\* subtree value is maximal for White to move and minimal for Black to move.
C24_GetMoveFirstBest ==
    (last.op = "play" /\ last.engine = "minimax")
        => LET moves == generate_legal_moves(last.before)
           IN last.move = moves[FirstBest(last.before, moves, engine.depth, last.seed)]

\* Some later entry of a list of values equals the entry at a position after the first
TiedLater(value, chosen) ==
    chosen > 1 /\ \E j \in (chosen + 1)..Len(value) : value[j] = value[chosen]

\* C24 witness: MinimaxEngine played a move that is not the first legal move, and a
\* later legal move has the same subtree value
C24_Witness ==
    /\ last.op = "play"
    /\ last.engine = "minimax"
    /\ LET moves == generate_legal_moves(last.before)
           chosen == FirstBest(last.before, moves, engine.depth, last.seed)
       IN /\ last.move = moves[chosen]
          /\ TiedLater(SubtreeValues(last.before, moves, engine.depth, last.seed), chosen)

\* The squares of the board that hold the king of a colour
Kings(b, color) ==
    {sq \in Squares(b) : At(b, sq) # None /\ At(b, sq).type = KING /\ At(b, sq).color = color}

OtherColor(color) == IF color = WHITE THEN BLACK ELSE WHITE

\* C25: in every position reached by legal moves from the initial layout of a variant
\* the board holds exactly one White and one Black king, the side not to move is not
\* in check, and no legal move captures a king.
C25_OneKingEach ==
    /\ Cardinality(Kings(cur, WHITE)) = 1
    /\ Cardinality(Kings(cur, BLACK)) = 1
    /\ ~is_in_check(cur, OtherColor(cur.turn))
    /\ \A m \in Range(generate_legal_moves(cur)) :
          m.captured = None \/ m.captured.type # KING

\* C25 witness: a move was played from a position where the legality filter dropped
\* a move, and it gives check: the king now attacked belongs to the side to move
C25_Witness ==
    /\ last.op = "play"
    /\ Len(generate_legal_moves(last.before)) < Len(PseudoMoves(last.before, last.before.turn))
    /\ is_in_check(cur, cur.turn)
    /\ Cardinality(Kings(cur, WHITE)) = 1
    /\ Cardinality(Kings(cur, BLACK)) = 1

\* The number of pieces on the board
PieceCount(b) == Cardinality({sq \in Squares(b) : At(b, sq) # None})

\* A move carries the piece of its origin and what stands on its destination, which
\* is nothing or a piece of the other colour
MoveMatchesBoard(b, m) ==
    /\ m.piece # None
    /\ m.piece = At(b, m.from_pos)
    /\ m.captured = At(b, m.to_pos)
    /\ (m.captured # None) <=> (At(b, m.to_pos) # None)
    /\ m.captured # None => m.captured.color # m.piece.color

\* C30: every move the generator produces, for either colour, carries the piece on its
\* origin square as move.piece and, as move.captured, the piece on its destination
\* square (of the other colour) or nothing when the square is empty; a legal move that
\* was applied left the number of pieces unchanged when it captured nothing and
\* reduced it by one when it captured.
C30_MovesMatchBoard ==
    /\ \A color \in {WHITE, BLACK} :
          \A m \in Range(PseudoMoves(cur, color)) : MoveMatchesBoard(cur, m)
    /\ \A m \in Range(generate_legal_moves(cur)) : MoveMatchesBoard(cur, m)
    /\ last.op = "play"
          => PieceCount(cur) = PieceCount(last.before)
                                  - (IF last.move.captured # None THEN 1 ELSE 0)

\* C30 witness: a capture was played and took one piece off the board, and the position
\* reached has both capturing and non-capturing moves
C30_Witness ==
    /\ last.op = "play"
    /\ last.move.captured # None
    /\ PieceCount(cur) = PieceCount(last.before) - 1
    /\ \E m \in Range(generate_legal_moves(cur)) : m.captured # None
    /\ \E m \in Range(generate_legal_moves(cur)) : m.captured = None

\* minichess_gui in a game of a human against an engine
HumanVsAI == app.prog = "minichess_gui" /\ app.engine # "-" /\ ~app.setup_mode

\* C26: in a game of minichess_gui against an engine, U pressed with at least one move
\* played leaves a board on which the human is to move, and there is no state of a
\* game not over with the engine to move and ai_thinking false.
C26_UndoReturnsToHuman ==
    HumanVsAI =>
        /\ (app.ev.name = "undo" /\ ~app.ev.setup_mode /\ ~app.ev.game_over
               /\ Len(app.ev.move_history) > 0)
              => app.board.turn = app.human
        /\ ~app.game_over /\ app.board.turn # app.human => app.ai_thinking

\* C27: in a game of minichess_gui against an engine, whatever the order of start,
\* click-move, U and R, the engine is asked for a move, and its move applied, only
\* when board.turn is the colour the human does not play.
C27_AIMovesOnItsTurn ==
    (HumanVsAI /\ app.ev.name = "engine") => app.ev.board.turn # app.ev.human

\* The squares a pawn has still to go to its farthest rank, summed over the pawns
PawnSteps(b) ==
    LET steps(sq) == IF At(b, sq) = None \/ At(b, sq).type # PAWN THEN 0
                     ELSE IF At(b, sq).color = WHITE THEN (b.rows - 1) - sq[1] ELSE sq[1]
        RECURSIVE sum(_)
        sum(S) == IF S = {} THEN 0
                  ELSE LET sq == CHOOSE x \in S : TRUE IN steps(sq) + sum(S \ {sq})
    IN sum(Squares(b))

\* What a game has left: a capture takes a piece off, a pawn move brings a pawn
\* nearer its last rank, every other move uses up one of the 50 plies of the clock
Rank(b) == 51 * (PieceCount(b) + PawnSteps(b)) + (50 - b.halfmove_clock)

\* Every legal move of a position that is not game over leaves less of the game
EveryMoveShortens(b) ==
    \/ is_game_over(b)
    \/ \A m \in Range(generate_legal_moves(b)) :
          /\ Rank(make_move(b, m)) < Rank(b)
          /\ Rank(make_move(b, m)) >= 0
          /\ make_move(b, m).halfmove_clock <= 50

\* Every move from the k-th on of a game, played from position b, was made in a
\* position that was not game over, left less of the game and kept the clock within 50
RECURSIVE MovesShortened(_, _, _)
MovesShortened(b, history, k) ==
    IF k > Len(history) THEN TRUE
    ELSE \A after \in {make_move(b, history[k])} :
            /\ ~is_game_over(b)
            /\ Rank(after) < Rank(b)
            /\ Rank(after) >= 0
            /\ after.halfmove_clock <= 50
            /\ MovesShortened(after, history, k + 1)

\* C28: a game played by legal moves while is_game_over() is false comes to a position
\* where is_game_over() is true: halfmove_clock never exceeds 50, every move played
\* since the initial layout and every legal move of the position reached strictly
\* decreases a natural number, and the game loop reaches game over.
C28_GameTerminates ==
    /\ [](/\ cur.halfmove_clock <= 50
          /\ MovesShortened(MinichessBoard(cur.variant), cur.move_history, 1)
          /\ EveryMoveShortens(cur))
    /\ <>is_game_over(cur)

\* C28 witness: the loop has played the last plies of a game of more than 50 plies to
\* its end by the clock: the clock was reset by captures on the way and ran to 50
C28_Witness ==
    /\ last.op = "play"
    /\ is_game_over(cur)
    /\ ~is_checkmate(cur) /\ ~is_stalemate(cur)
    /\ cur.halfmove_clock = 50
    /\ Len(cur.move_history) > 50
    /\ \E k \in DOMAIN cur.move_history : cur.move_history[k].captured # None

\* C29: every move minichess_gui passes to board.make_move, from a click or from the
\* engine, is one of generate_legal_moves() of the position it is made in, and
\* legal_moves_for_selected holds only legal moves of the current position that start
\* on selected_square.
C29_GuiMovesLegal ==
    app.prog = "minichess_gui" =>
        /\ (app.ev.name \in {"move", "engine"} /\ app.ev.move # NoMove)
              => app.ev.move \in Range(generate_legal_moves(app.ev.board))
        /\ app.setup_mode => app.legal_moves_for_selected = <<>>
        /\ ~app.setup_mode =>
              \A m \in Range(app.legal_moves_for_selected) :
                  /\ m \in Range(generate_legal_moves(app.board))
                  /\ m.from_pos = app.selected_square

\* C29 witness: with moves already played, a piece was selected and a click on one of
\* its destinations made a capture
C29_Witness ==
    /\ app.prog = "minichess_gui"
    /\ app.ev.name = "move"
    /\ Len(app.ev.move_history) > 0
    /\ app.ev.move \in Range(generate_legal_moves(app.ev.board))
    /\ app.ev.move.captured # None

====
